---- MODULE Spec2Model ----
(***************************************************************************)
(* Account-state synchronizer of the trading dashboard:                    *)
(*   frontend/src/context/AccountContext.tsx  (StateStore, SyncController, *)
(*                                             MessageDispatcher)          *)
(*   frontend/src/services/account.ts         (DataAccessLayer)            *)
(*   frontend/src/services/mockData.ts        (fallback data)              *)
(*                                                                         *)
(* Time is counted in hours.  A timestamp string is a record               *)
(* [local, off]: the wall-clock reading and its UTC offset, so that two    *)
(* different strings can denote one instant; getTime gives the instant.    *)
(* Only well-formed timestamp strings are modelled.  A nullable field      *)
(* holds the record Null or a record of its type.                          *)
(***************************************************************************)
EXTENDS Integers, Sequences, FiniteSets, TLC

VARIABLES
    state,          \* AccountState held by useReducer
    strategyCache,  \* account.ts: let strategyCache
    riskCache,      \* account.ts: let riskCache
    calls,          \* the controller calls whose remote requests are in flight
    pushed,         \* how many of the counted messages the push channel has emitted
    now,            \* the wall clock read by new Date()
    last,           \* the operation that produced the current state
    definition,     \* websocket.js: which definition of WebSocketClient is in use
    sockets,        \* readyState of every WebSocket created
    ws,             \* this.ws
    timers,         \* the pending timeouts
    timerCount,     \* timeouts created so far
    reconnectTimer, \* this.reconnectTimer
    manualClose,    \* this.manualClose
    sent,           \* the frames handed to WebSocket.send
    failures,       \* failed connection attempts and unexpected closes so far
    listeners       \* this.listeners: the callbacks registered per event

\* The WebSocketClient of utils/websocket.js
wsVars == <<definition, sockets, ws, timers, timerCount, reconnectTimer,
            manualClose, sent, failures, listeners>>

vars == <<state, strategyCache, riskCache, calls, pushed, now, last, wsVars>>

----------------------------------------------------------------------------
(* Bounds of the model *)

MaxTs == 3          \* pushed orders and trades carry instants 1..MaxTs
MaxTicks == 1       \* the clock advances at most MaxTicks hours
MaxInflight == 2    \* controller calls with requests in flight at one time
MaxPushed == 52     \* notifications the push endpoint emits
MaxSyncPushed == 2  \* the same, in the specifications with requests in flight
MaxSockets == 3     \* WebSockets created
MaxFailures == 2    \* failed connection attempts and unexpected closes
MaxSent == 2        \* calls of send
MaxListeners == 2   \* callbacks registered with on

----------------------------------------------------------------------------
(* Values *)

Null == [kind |-> "null"]
Undefined == [kind |-> "undefined"]

\* new Date(timestamp).getTime()
getTime(timestamp) == timestamp.local - timestamp.off

\* new Date(ms).toISOString(): always rendered in UTC
toISOString(ms) == [local |-> ms, off |-> 0]

\* mockData.ts: const now = new Date(), taken once when the module loads
ModuleLoadTime == 2000

HOURS == 1
DAYS == 24 * HOURS
hoursAgo(hours) == toISOString(ModuleLoadTime - hours * HOURS)
daysAgo(days) == toISOString(ModuleLoadTime - days * DAYS)

----------------------------------------------------------------------------
(* StateStore: the reducer *)

initialState ==
    [ balance |-> <<>>,
      positions |-> <<>>,
      orders |-> <<>>,
      trades |-> <<>>,
      performance |-> Null,
      performanceRange |-> "ALL",
      assetHistory |-> <<>>,
      assetHistoryRange |-> "1M",
      tradeStats |-> Null,
      strategies |-> <<>>,
      risk |-> Null,
      notifications |-> <<>>,
      loading |-> FALSE,
      error |-> Null,
      lastUpdated |-> Undefined ]

\* A spread in which the fields of a win
Spread_FirstWins(a, b) == a

\* { ...a, ...b }: the fields of b override those of a
Spread(a, b) ==
    [f \in DOMAIN a |-> IF f \in DOMAIN b THEN b[f] ELSE a[f]]

\* array.filter(keep)
Filter(s, keep(_)) == SelectSeq(s, keep)

\* array.findIndex(test): the first matching index, 0 for the code's -1
findIndex(s, test(_)) ==
    IF \E i \in 1..Len(s) : test(s[i])
    THEN CHOOSE i \in 1..Len(s) : test(s[i]) /\ \A j \in 1..(i - 1) : ~test(s[j])
    ELSE 0

\* Insert x into a list that is in descending order of time, behind every
\* entry that is not older than x.
InsertByTime(sorted, x) ==
    LET n == Cardinality({i \in 1..Len(sorted) :
                             getTime(sorted[i].timestamp) >= getTime(x.timestamp)})
    IN  SubSeq(sorted, 1, n) \o <<x>> \o SubSeq(sorted, n + 1, Len(sorted))

\* array.sort((a, b) => time(b) - time(a)): descending by instant and stable
RECURSIVE sortByTimestampDesc(_)
sortByTimestampDesc(s) ==
    IF s = <<>> THEN <<>>
    ELSE InsertByTime(sortByTimestampDesc(SubSeq(s, 1, Len(s) - 1)), s[Len(s)])

\* A variant that never looks for the symbol
upsertPosition_AlwaysAppend(positions, payload) == Append(positions, payload)

\* case 'UPSERT_POSITION'
upsertPosition(positions, payload) ==
    LET index == findIndex(positions, LAMBDA position : position.symbol = payload.symbol)
    IN  IF index >= 1
        THEN [positions EXCEPT ![index] = payload]
        ELSE Append(positions, payload)

\* A variant that puts the new entry in its place and does not sort the rest
upsertById_InsertOnly(list, payload) ==
    InsertByTime(Filter(list, LAMBDA entry : entry.id # payload.id), payload)

\* A variant without the trailing sort
upsertById_NoSort(list, payload) ==
    <<payload>> \o Filter(list, LAMBDA entry : entry.id # payload.id)

\* case 'UPSERT_ORDER' and case 'UPSERT_TRADE'
upsertById(list, payload) ==
    sortByTimestampDesc(<<payload>> \o Filter(list, LAMBDA entry : entry.id # payload.id))

NotificationCap == 50

\* array.slice(0, n)
slice0(s, n) == SubSeq(s, 1, IF Len(s) < n THEN Len(s) ELSE n)

\* A variant that does not truncate
addNotification_NoCap(notifications, payload) == <<payload>> \o notifications

\* case 'ADD_NOTIFICATION'
addNotification(notifications, payload) ==
    slice0(<<payload>> \o notifications, NotificationCap)

\* A MARK_NOTIFICATION that sets the flag of every entry
markNotification_All(notifications, payload) ==
    [i \in 1..Len(notifications) |-> [notifications[i] EXCEPT !.read = payload.read]]

\* case 'MARK_NOTIFICATION'
markNotification(notifications, payload) ==
    [i \in 1..Len(notifications) |->
        IF notifications[i].id = payload.id
        THEN [notifications[i] EXCEPT !.read = payload.read]
        ELSE notifications[i]]

\* The outcome of a reducer call that throws
Thrown == [kind |-> "thrown"]

\* A reducer that throws on an action type it does not know
accountReducer_Strict(s, action, clock) ==
    LET stamp == toISOString(clock) IN
    CASE action.type = "SET_STATE" -> Spread(s, action.payload)
      [] action.type = "SET_LOADING" -> [s EXCEPT !.loading = action.payload]
      [] action.type = "SET_ERROR" -> [s EXCEPT !.error = action.payload]
      [] action.type = "UPSERT_BALANCES" ->
            [s EXCEPT !.balance = action.payload, !.lastUpdated = stamp]
      [] action.type = "UPSERT_POSITION" ->
            [s EXCEPT !.positions = upsertPosition(s.positions, action.payload),
                      !.lastUpdated = stamp]
      [] action.type = "UPSERT_ORDER" ->
            [s EXCEPT !.orders = upsertById(s.orders, action.payload),
                      !.lastUpdated = stamp]
      [] action.type = "UPSERT_TRADE" ->
            [s EXCEPT !.trades = upsertById(s.trades, action.payload),
                      !.lastUpdated = stamp]
      [] action.type = "SET_RISK" ->
            [s EXCEPT !.risk = action.payload, !.lastUpdated = stamp]
      [] action.type = "ADD_NOTIFICATION" ->
            [s EXCEPT !.notifications = addNotification(s.notifications, action.payload),
                      !.lastUpdated = stamp]
      [] action.type = "SET_NOTIFICATIONS" ->
            [s EXCEPT !.notifications = action.payload, !.lastUpdated = stamp]
      [] action.type = "MARK_NOTIFICATION" ->
            [s EXCEPT !.notifications = markNotification(s.notifications, action.payload),
                      !.lastUpdated = stamp]
      [] action.type = "SET_STRATEGIES" ->
            [s EXCEPT !.strategies = action.payload, !.lastUpdated = stamp]
      [] OTHER -> Thrown

\* A reducer whose SET_ERROR also ends the loading state
accountReducer_ErrorEndsLoading(s, action, clock) ==
    LET stamp == toISOString(clock) IN
    CASE action.type = "SET_STATE" -> Spread(s, action.payload)
      [] action.type = "SET_LOADING" -> [s EXCEPT !.loading = action.payload]
      [] action.type = "SET_ERROR" -> [s EXCEPT !.error = action.payload, !.loading = FALSE]
      [] action.type = "UPSERT_BALANCES" ->
            [s EXCEPT !.balance = action.payload, !.lastUpdated = stamp]
      [] action.type = "UPSERT_POSITION" ->
            [s EXCEPT !.positions = upsertPosition(s.positions, action.payload),
                      !.lastUpdated = stamp]
      [] action.type = "UPSERT_ORDER" ->
            [s EXCEPT !.orders = upsertById(s.orders, action.payload),
                      !.lastUpdated = stamp]
      [] action.type = "UPSERT_TRADE" ->
            [s EXCEPT !.trades = upsertById(s.trades, action.payload),
                      !.lastUpdated = stamp]
      [] action.type = "SET_RISK" ->
            [s EXCEPT !.risk = action.payload, !.lastUpdated = stamp]
      [] action.type = "ADD_NOTIFICATION" ->
            [s EXCEPT !.notifications = addNotification(s.notifications, action.payload),
                      !.lastUpdated = stamp]
      [] action.type = "SET_NOTIFICATIONS" ->
            [s EXCEPT !.notifications = action.payload, !.lastUpdated = stamp]
      [] action.type = "MARK_NOTIFICATION" ->
            [s EXCEPT !.notifications = markNotification(s.notifications, action.payload),
                      !.lastUpdated = stamp]
      [] action.type = "SET_STRATEGIES" ->
            [s EXCEPT !.strategies = action.payload, !.lastUpdated = stamp]
      [] OTHER -> s

\* accountReducer(state, action); clock is the reading of new Date()
accountReducer(s, action, clock) ==
    LET stamp == toISOString(clock) IN
    CASE action.type = "SET_STATE" -> Spread(s, action.payload)
      [] action.type = "SET_LOADING" -> [s EXCEPT !.loading = action.payload]
      [] action.type = "SET_ERROR" -> [s EXCEPT !.error = action.payload]
      [] action.type = "UPSERT_BALANCES" ->
            [s EXCEPT !.balance = action.payload, !.lastUpdated = stamp]
      [] action.type = "UPSERT_POSITION" ->
            [s EXCEPT !.positions = upsertPosition(s.positions, action.payload),
                      !.lastUpdated = stamp]
      [] action.type = "UPSERT_ORDER" ->
            [s EXCEPT !.orders = upsertById(s.orders, action.payload),
                      !.lastUpdated = stamp]
      [] action.type = "UPSERT_TRADE" ->
            [s EXCEPT !.trades = upsertById(s.trades, action.payload),
                      !.lastUpdated = stamp]
      [] action.type = "SET_RISK" ->
            [s EXCEPT !.risk = action.payload, !.lastUpdated = stamp]
      [] action.type = "ADD_NOTIFICATION" ->
            [s EXCEPT !.notifications = addNotification(s.notifications, action.payload),
                      !.lastUpdated = stamp]
      [] action.type = "SET_NOTIFICATIONS" ->
            [s EXCEPT !.notifications = action.payload, !.lastUpdated = stamp]
      [] action.type = "MARK_NOTIFICATION" ->
            [s EXCEPT !.notifications = markNotification(s.notifications, action.payload),
                      !.lastUpdated = stamp]
      [] action.type = "SET_STRATEGIES" ->
            [s EXCEPT !.strategies = action.payload, !.lastUpdated = stamp]
      [] OTHER -> s

----------------------------------------------------------------------------
(* Fallback data: mockData.ts.  Records keep the fields the store, the    *)
(* filters and the controller read; prices and quantities are left out.   *)

mockBalances ==
    << [asset |-> "USDT", usdValue |-> 20500],
       [asset |-> "BTC", usdValue |-> 29000],
       [asset |-> "ETH", usdValue |-> 25000],
       [asset |-> "SOL", usdValue |-> 12000],
       [asset |-> "USDC", usdValue |-> 8000] >>

mockPositions ==
    << [symbol |-> "BTC/USDT", direction |-> "LONG", markPrice |-> 38250],
       [symbol |-> "ETH/USDT", direction |-> "SHORT", markPrice |-> 2595],
       [symbol |-> "SOL/USDT", direction |-> "LONG", markPrice |-> 62] >>

Order(id, timestamp, symbol, side, status) ==
    [id |-> id, timestamp |-> timestamp, symbol |-> symbol, side |-> side,
     status |-> status]

baseOrders ==
    << Order("ORD-20240301-001", hoursAgo(2), "BTC/USDT", "BUY", "FILLED"),
       Order("ORD-20240301-002", hoursAgo(5), "ETH/USDT", "SELL", "FILLED"),
       Order("ORD-20240229-003", hoursAgo(18), "SOL/USDT", "BUY", "PARTIALLY_FILLED"),
       Order("ORD-20240228-004", daysAgo(1), "BTC/USDT", "SELL", "CANCELED"),
       Order("ORD-20240228-005", daysAgo(2), "ETH/USDT", "BUY", "FILLED"),
       Order("ORD-20240227-006", daysAgo(3), "SOL/USDT", "SELL", "FILLED"),
       Order("ORD-20240225-007", daysAgo(5), "BTC/USDT", "SELL", "OPEN"),
       Order("ORD-20240222-008", daysAgo(8), "SOL/USDT", "BUY", "FILLED"),
       Order("ORD-20240218-009", daysAgo(12), "BTC/USDT", "BUY", "FILLED"),
       Order("ORD-20240210-010", daysAgo(20), "ETH/USDT", "SELL", "CANCELED"),
       Order("ORD-20240121-011", daysAgo(39), "SOL/USDT", "SELL", "FILLED"),
       Order("ORD-20231228-012", daysAgo(82), "BTC/USDT", "BUY", "FILLED") >>

Trade(id, orderId, timestamp, symbol, side) ==
    [id |-> id, orderId |-> orderId, timestamp |-> timestamp, symbol |-> symbol,
     side |-> side]

baseTrades ==
    << Trade("TRD-6001", "ORD-20240301-001", hoursAgo(2), "BTC/USDT", "BUY"),
       Trade("TRD-6002", "ORD-20240301-002", hoursAgo(5), "ETH/USDT", "SELL"),
       Trade("TRD-6003", "ORD-20240229-003", hoursAgo(18), "SOL/USDT", "BUY"),
       Trade("TRD-6004", "ORD-20240228-005", daysAgo(2), "ETH/USDT", "BUY"),
       Trade("TRD-6005", "ORD-20240227-006", daysAgo(3), "SOL/USDT", "SELL"),
       Trade("TRD-6006", "ORD-20240222-008", daysAgo(8), "SOL/USDT", "BUY"),
       Trade("TRD-6007", "ORD-20240218-009", daysAgo(12), "BTC/USDT", "BUY"),
       Trade("TRD-6008", "ORD-20240210-010", daysAgo(20), "ETH/USDT", "SELL"),
       Trade("TRD-6009", "ORD-20240121-011", daysAgo(39), "SOL/USDT", "SELL"),
       Trade("TRD-6010", "ORD-20231228-012", daysAgo(82), "BTC/USDT", "BUY") >>

PerformanceRanges == {"TODAY", "WEEK", "MONTH", "YEAR", "ALL"}

performanceByRange ==
    [range \in PerformanceRanges |->
        [kind |-> "performance",
         source |-> "mock",
         totalTrades |-> CASE range = "TODAY" -> 6
                           [] range = "WEEK" -> 24
                           [] range = "MONTH" -> 92
                           [] range = "YEAR" -> 860
                           [] range = "ALL" -> 1350]]

mockTradeStatistics ==
    [kind |-> "tradeStats", source |-> "mock",
     totals |-> [volume |-> 18600000, fees |-> 11240]]

Strategy(id, status, lastUpdated) ==
    [id |-> id, status |-> status, lastUpdated |-> lastUpdated]

mockStrategies ==
    << Strategy("strat-001", "running", hoursAgo(1)),
       Strategy("strat-002", "paused", hoursAgo(7)),
       Strategy("strat-003", "stopped", daysAgo(2)) >>

mockRiskMetrics ==
    [kind |-> "risk",
     source |-> "mock",
     riskEvents |-> << [id |-> "risk-evt-001", timestamp |-> hoursAgo(3)],
                       [id |-> "risk-evt-002", timestamp |-> daysAgo(1)] >>,
     alerts |-> << [id |-> "alert-001", enabled |-> TRUE],
                   [id |-> "alert-002", enabled |-> TRUE],
                   [id |-> "alert-003", enabled |-> FALSE] >>]

Notification(id, timestamp, read) ==
    [id |-> id, timestamp |-> timestamp, read |-> read]

mockNotifications ==
    << Notification("notif-001", hoursAgo(2), FALSE),
       Notification("notif-002", hoursAgo(5), FALSE),
       Notification("notif-003", hoursAgo(8), TRUE),
       Notification("notif-004", daysAgo(1), TRUE) >>

\* A bound of a filter may also be the empty string, which is falsy, or a
\* string that is no date, whose getTime() is NaN
EmptyString == [kind |-> "empty"]
InvalidDate == [kind |-> "invalid"]

\* value < new Date(bound).getTime(), false when the right side is NaN
Before(value, bound) == bound # InvalidDate /\ value < getTime(bound)
After(value, bound) == bound # InvalidDate /\ value > getTime(bound)

\* A withinRange that also rejects a record on a bound
withinRange_Exclusive(timestamp, filters) ==
    IF filters = Undefined THEN TRUE
    ELSE LET value == getTime(timestamp) IN
         /\ ("start" \in DOMAIN filters /\ filters.start # EmptyString
                => ~(filters.start # InvalidDate /\ value <= getTime(filters.start)))
         /\ ("end" \in DOMAIN filters /\ filters.end # EmptyString
                => ~After(value, filters.end))

\* withinRange(timestamp, filters): filters is Undefined or a record whose
\* absent bounds are left out
withinRange(timestamp, filters) ==
    IF filters = Undefined THEN TRUE
    ELSE LET value == getTime(timestamp) IN
         /\ ("start" \in DOMAIN filters /\ filters.start # EmptyString
                => ~Before(value, filters.start))
         /\ ("end" \in DOMAIN filters /\ filters.end # EmptyString
                => ~After(value, filters.end))

\* filters?.field && filters.field !== 'ALL' && record.field !== filters.field
Rejects(filters, field, record) ==
    /\ filters # Undefined
    /\ field \in DOMAIN filters
    /\ filters[field] # ""
    /\ filters[field] # "ALL"
    /\ record[field] # filters[field]

getMockOrders(filters) ==
    Filter(baseOrders, LAMBDA order :
        /\ ~Rejects(filters, "status", order)
        /\ ~Rejects(filters, "symbol", order)
        /\ ~Rejects(filters, "side", order)
        /\ withinRange(order.timestamp, filters))

getMockTrades(filters) ==
    Filter(baseTrades, LAMBDA trade :
        /\ ~Rejects(filters, "symbol", trade)
        /\ ~Rejects(filters, "side", trade)
        /\ withinRange(trade.timestamp, filters))

getMockPerformance(range) ==
    IF range \in DOMAIN performanceByRange
    THEN performanceByRange[range]
    ELSE performanceByRange["ALL"]

TimeRanges == {"1D", "1W", "1M", "3M", "6M", "1Y", "ALL"}

rangeDurations ==
    [range \in TimeRanges |->
        CASE range = "1D" -> 1
          [] range = "1W" -> 7
          [] range = "1M" -> 30
          [] range = "3M" -> 90
          [] range = "6M" -> 180
          [] range = "1Y" -> 365
          [] range = "ALL" -> 365]

\* getMockAssetHistory(range): one point per step, oldest first; the values
\* of a point are a fixed function of its index and the range
getMockAssetHistory(range) ==
    LET limit == rangeDurations[range]
        step == IF range = "1D" THEN HOURS ELSE DAYS
        totalPoints == IF range = "1D" THEN 24 ELSE limit
    IN  [k \in 1..totalPoints |->
            [timestamp |-> toISOString(ModuleLoadTime - (totalPoints - k) * step),
             index |-> totalPoints - k,
             source |-> "mock"]]

getMockTradeStatistics(filters) == mockTradeStatistics

----------------------------------------------------------------------------
(* DataAccessLayer: account.ts.  A remote response is [ok |-> FALSE] (the  *)
(* request threw: network error, non-success status) or                   *)
(* [ok |-> TRUE, data |-> d].  A request or fallback thunk yields the     *)
(* value it returns and the module caches it leaves behind.               *)

Thunk(threw, value, sc, rc) ==
    [threw |-> threw, value |-> value, strategyCache |-> sc, riskCache |-> rc]

Settled(status, thunk) ==
    [status |-> status, value |-> thunk.value,
     strategyCache |-> thunk.strategyCache, riskCache |-> thunk.riskCache]

\* A safeRequest that lets the error of request through
safeRequest_Rethrow(request, fallback) ==
    IF ~request.threw
    THEN Settled("fulfilled", request)
    ELSE Settled("rejected", request)

\* safeRequest(request, fallback): the fallback runs only when request threw
safeRequest(request, fallback) ==
    IF ~request.threw
    THEN Settled("fulfilled", request)
    ELSE Settled("fulfilled", fallback)

\* JSON.parse(JSON.stringify(value)): a deep copy.  Every value the program
\* passes through it is JSON data (a parsed response or frame, the mock
\* literal, or a copy of one with a boolean replaced), which the round trip
\* reproduces field by field.
JSONClone(value) == [f \in DOMAIN value |-> value[f]]

\* async () => (await apiClient.get(...)).data, for a request that keeps no cache
apiGet(response, sc, rc) ==
    IF response.ok
    THEN Thunk(FALSE, response.data, sc, rc)
    ELSE Thunk(TRUE, Undefined, sc, rc)

getAccountBalance_EmptyFallback(response, sc, rc) ==
    safeRequest(apiGet(response, sc, rc), Thunk(FALSE, <<>>, sc, rc))
getAccountBalance(response, sc, rc) ==
    safeRequest(apiGet(response, sc, rc), Thunk(FALSE, mockBalances, sc, rc))

getPositions(response, sc, rc) ==
    safeRequest(apiGet(response, sc, rc), Thunk(FALSE, mockPositions, sc, rc))

getOrderHistory(filters, response, sc, rc) ==
    safeRequest(apiGet(response, sc, rc), Thunk(FALSE, getMockOrders(filters), sc, rc))

getTradeHistory(filters, response, sc, rc) ==
    safeRequest(apiGet(response, sc, rc), Thunk(FALSE, getMockTrades(filters), sc, rc))

getPerformanceMetrics(range, response, sc, rc) ==
    safeRequest(apiGet(response, sc, rc), Thunk(FALSE, getMockPerformance(range), sc, rc))

getAssetHistory(range, response, sc, rc) ==
    safeRequest(apiGet(response, sc, rc), Thunk(FALSE, getMockAssetHistory(range), sc, rc))

getTradeStatistics(filters, response, sc, rc) ==
    safeRequest(apiGet(response, sc, rc),
                Thunk(FALSE, getMockTradeStatistics(filters), sc, rc))

getStrategies(response, sc, rc) ==
    safeRequest(IF response.ok
                THEN Thunk(FALSE, response.data, response.data, rc)
                ELSE Thunk(TRUE, Undefined, sc, rc),
                Thunk(FALSE, sc, sc, rc))

\* arg is [strategyId, status]; clock is the reading of new Date() in the fallback
updateStrategyStatus(arg, response, sc, rc, clock) ==
    LET patched ==
            [i \in 1..Len(sc) |->
                IF sc[i].id = arg.strategyId
                THEN [sc[i] EXCEPT !.status = arg.status,
                                   !.lastUpdated = toISOString(clock)]
                ELSE sc[i]]
    IN  safeRequest(IF response.ok
                    THEN Thunk(FALSE, response.data, response.data, rc)
                    ELSE Thunk(TRUE, Undefined, sc, rc),
                    Thunk(FALSE, patched, patched, rc))

getRiskMetrics_FallbackMock(response, sc, rc) ==
    safeRequest(IF response.ok
                THEN Thunk(FALSE, response.data, sc, response.data)
                ELSE Thunk(TRUE, Undefined, sc, rc),
                Thunk(FALSE, JSONClone(mockRiskMetrics), sc, rc))
getRiskMetrics(response, sc, rc) ==
    safeRequest(IF response.ok
                THEN Thunk(FALSE, response.data, sc, response.data)
                ELSE Thunk(TRUE, Undefined, sc, rc),
                Thunk(FALSE, JSONClone(rc), sc, rc))

\* setRiskCache(nextRisk): the new value of riskCache
setRiskCache(nextRisk) == JSONClone(nextRisk)

getNotifications(response, sc, rc) ==
    safeRequest(apiGet(response, sc, rc), Thunk(FALSE, mockNotifications, sc, rc))

acknowledgeNotification(notificationId, response, sc, rc) ==
    safeRequest(IF response.ok
                THEN Thunk(FALSE, Undefined, sc, rc)
                ELSE Thunk(TRUE, Undefined, sc, rc),
                Thunk(FALSE, Undefined, sc, rc))

\* One fetch of the layer: fetch is [fn, arg], arg a record of the parameters
Fetch(fetch, response, sc, rc, clock) ==
    CASE fetch.fn = "getAccountBalance" -> getAccountBalance(response, sc, rc)
      [] fetch.fn = "getPositions" -> getPositions(response, sc, rc)
      [] fetch.fn = "getOrderHistory" -> getOrderHistory(fetch.arg, response, sc, rc)
      [] fetch.fn = "getTradeHistory" -> getTradeHistory(fetch.arg, response, sc, rc)
      [] fetch.fn = "getPerformanceMetrics" ->
            getPerformanceMetrics(fetch.arg.range, response, sc, rc)
      [] fetch.fn = "getAssetHistory" ->
            getAssetHistory(fetch.arg.range, response, sc, rc)
      [] fetch.fn = "getTradeStatistics" ->
            getTradeStatistics(fetch.arg, response, sc, rc)
      [] fetch.fn = "getStrategies" -> getStrategies(response, sc, rc)
      [] fetch.fn = "updateStrategyStatus" ->
            updateStrategyStatus(fetch.arg, response, sc, rc, clock)
      [] fetch.fn = "getRiskMetrics" -> getRiskMetrics(response, sc, rc)
      [] fetch.fn = "getNotifications" -> getNotifications(response, sc, rc)
      [] fetch.fn = "acknowledgeNotification" ->
            acknowledgeNotification(fetch.arg.notificationId, response, sc, rc)

----------------------------------------------------------------------------
(* What the remote endpoints and the push channel can deliver *)

LiveTimestamps ==
    {[local |-> t, off |-> 0] : t \in 1..MaxTs} \cup {[local |-> 2, off |-> 1]}

OrderIds == {"A", "B", "C"}
TradeIds == {"T1", "T2"}

\* Pushed orders; order A comes in two versions per timestamp
LiveOrders ==
    {Order(id, ts, "BTC/USDT", "BUY", "OPEN") : id \in OrderIds, ts \in LiveTimestamps}
        \cup {Order("A", ts, "BTC/USDT", "BUY", "FILLED") : ts \in LiveTimestamps}

LiveTrades ==
    {Trade(id, "A", ts, "BTC/USDT", "BUY") : id \in TradeIds, ts \in LiveTimestamps}

LivePositions ==
    {[symbol |-> symbol, direction |-> "LONG", markPrice |-> price] :
        symbol \in {"BTC/USDT", "ETH/USDT", "SOL/USDT"}, price \in {1, 2}}

LiveBalances == << [asset |-> "USDT", usdValue |-> 100] >>

\* An order snapshot as the endpoint may send it: oldest first
LiveOrderSnapshot ==
    << Order("A", toISOString(1), "ETH/USDT", "SELL", "FILLED"),
       Order("B", toISOString(3), "ETH/USDT", "SELL", "OPEN") >>

LiveTradeSnapshot ==
    << Trade("T1", "A", toISOString(1), "ETH/USDT", "SELL"),
       Trade("T2", "B", toISOString(3), "ETH/USDT", "SELL") >>

LivePerformance(range) == [kind |-> "performance", source |-> "live", range |-> range]

LiveAssetHistory(range) ==
    << [timestamp |-> toISOString(ModuleLoadTime), index |-> 0, source |-> "live",
        range |-> range] >>

LiveTradeStatistics ==
    [kind |-> "tradeStats", source |-> "live", totals |-> [volume |-> 1, fees |-> 1]]

\* The strategy list of the server, with the status it was asked to set
LiveStrategies(strategyId, status) ==
    [i \in 1..Len(mockStrategies) |->
        IF mockStrategies[i].id = strategyId
        THEN Strategy(strategyId, status, toISOString(ModuleLoadTime))
        ELSE Strategy(mockStrategies[i].id, "stopped", toISOString(ModuleLoadTime))]

LiveRisk(source) ==
    [kind |-> "risk",
     source |-> source,
     riskEvents |-> <<>>,
     alerts |-> << [id |-> "alert-001", enabled |-> FALSE],
                   [id |-> "alert-009", enabled |-> TRUE] >>]

\* A notification list longer than the cap of the store
LongNotifications ==
    [i \in 1..(NotificationCap + 1) |->
        Notification(ToString(i), toISOString(i), FALSE)]

LiveNotifications == << Notification("live-1", toISOString(1), FALSE) >>

\* The data a successful response to fetch can carry
LiveData(fetch) ==
    CASE fetch.fn = "getAccountBalance" -> {LiveBalances}
      [] fetch.fn = "getPositions" ->
            {<< [symbol |-> "BTC/USDT", direction |-> "LONG", markPrice |-> 1] >>}
      [] fetch.fn = "getOrderHistory" -> {LiveOrderSnapshot}
      [] fetch.fn = "getTradeHistory" -> {LiveTradeSnapshot}
      [] fetch.fn = "getPerformanceMetrics" -> {LivePerformance(fetch.arg.range)}
      [] fetch.fn = "getAssetHistory" -> {LiveAssetHistory(fetch.arg.range)}
      [] fetch.fn = "getTradeStatistics" -> {LiveTradeStatistics}
      [] fetch.fn = "getStrategies" -> {LiveStrategies("strat-001", "stopped")}
      [] fetch.fn = "updateStrategyStatus" ->
            {LiveStrategies(fetch.arg.strategyId, fetch.arg.status)}
      [] fetch.fn = "getRiskMetrics" -> {LiveRisk("live")}
      [] fetch.fn = "getNotifications" -> {LiveNotifications, LongNotifications}
      [] fetch.fn = "acknowledgeNotification" -> {Undefined}

\* The n-th notification of the push channel
PushedNotification(n) == Notification(ToString(n), toISOString(n), FALSE)

----------------------------------------------------------------------------
(* SyncController: AccountContext.tsx.  A call in flight is                *)
(* [kind, queue, data, failed]: queue holds its fetches not yet settled,   *)
(* data the values getInitialAccountState has collected.  The fetches of   *)
(* one Promise.all touch pairwise disjoint state (each its own slice or    *)
(* result slot, strategies and risk their own cache), so their settle      *)
(* steps commute: a call settles its fetches in list order, and fetches of *)
(* different calls settle in any order.  The continuation of a settled     *)
(* fetch runs in microtasks of the same task, so it belongs to the step.   *)

NoArg == Undefined

FetchOf(fn, arg) == [fn |-> fn, arg |-> arg]

\* The Promise.all lists of getInitialAccountState and refreshAll
BatchFetches(performanceRange, assetHistoryRange) ==
    << FetchOf("getAccountBalance", NoArg),
       FetchOf("getPositions", NoArg),
       FetchOf("getOrderHistory", NoArg),
       FetchOf("getTradeHistory", NoArg),
       FetchOf("getPerformanceMetrics", [range |-> performanceRange]),
       FetchOf("getAssetHistory", [range |-> assetHistoryRange]),
       FetchOf("getTradeStatistics", NoArg),
       FetchOf("getStrategies", NoArg),
       FetchOf("getRiskMetrics", NoArg),
       FetchOf("getNotifications", NoArg) >>

\* The field of getInitialAccountState's result that a fetch fills
SliceOf(fn) ==
    CASE fn = "getAccountBalance" -> "balance"
      [] fn = "getPositions" -> "positions"
      [] fn = "getOrderHistory" -> "orders"
      [] fn = "getTradeHistory" -> "trades"
      [] fn = "getPerformanceMetrics" -> "performance"
      [] fn = "getAssetHistory" -> "assetHistory"
      [] fn = "getTradeStatistics" -> "tradeStats"
      [] fn = "getStrategies" -> "strategies"
      [] fn = "getRiskMetrics" -> "risk"
      [] fn = "getNotifications" -> "notifications"

Action(type, payload) == [type |-> type, payload |-> payload]

\* Apply a list of dispatched actions in order
RECURSIVE dispatchAll(_, _, _)
dispatchAll(s, actions, clock) ==
    IF actions = <<>> THEN s
    ELSE dispatchAll(accountReducer(s, Head(actions), clock), Tail(actions), clock)

\* A refreshPositions that also empties the order list
refreshDispatch_DropsOrders(fetch, value, clock) ==
    LET stamp == toISOString(clock) IN
    CASE fetch.fn = "getAccountBalance" -> << Action("UPSERT_BALANCES", value) >>
      [] fetch.fn = "getPositions" ->
            << Action("SET_STATE", [positions |-> value, orders |-> <<>>,
                                    lastUpdated |-> stamp]) >>
      [] fetch.fn = "getOrderHistory" ->
            << Action("SET_STATE", [orders |-> value, lastUpdated |-> stamp]) >>
      [] fetch.fn = "getTradeHistory" ->
            << Action("SET_STATE", [trades |-> value, lastUpdated |-> stamp]) >>
      [] fetch.fn = "getPerformanceMetrics" ->
            << Action("SET_STATE", [performance |-> value,
                                    performanceRange |-> fetch.arg.range,
                                    lastUpdated |-> stamp]) >>
      [] fetch.fn = "getAssetHistory" ->
            << Action("SET_STATE", [assetHistory |-> value,
                                    assetHistoryRange |-> fetch.arg.range,
                                    lastUpdated |-> stamp]) >>
      [] fetch.fn = "getTradeStatistics" ->
            << Action("SET_STATE", [tradeStats |-> value, lastUpdated |-> stamp]) >>
      [] fetch.fn = "getStrategies" -> << Action("SET_STRATEGIES", value) >>
      [] fetch.fn = "updateStrategyStatus" -> << Action("SET_STRATEGIES", value) >>
      [] fetch.fn = "getRiskMetrics" -> << Action("SET_RISK", value) >>
      [] fetch.fn = "getNotifications" -> << Action("SET_NOTIFICATIONS", value) >>
      [] fetch.fn = "acknowledgeNotification" -> <<>>

\* A refreshPositions that leaves lastUpdated alone
refreshDispatch_NoStamp(fetch, value, clock) ==
    LET stamp == toISOString(clock) IN
    CASE fetch.fn = "getAccountBalance" -> << Action("UPSERT_BALANCES", value) >>
      [] fetch.fn = "getPositions" ->
            << Action("SET_STATE", [positions |-> value]) >>
      [] fetch.fn = "getOrderHistory" ->
            << Action("SET_STATE", [orders |-> value, lastUpdated |-> stamp]) >>
      [] fetch.fn = "getTradeHistory" ->
            << Action("SET_STATE", [trades |-> value, lastUpdated |-> stamp]) >>
      [] fetch.fn = "getPerformanceMetrics" ->
            << Action("SET_STATE", [performance |-> value,
                                    performanceRange |-> fetch.arg.range,
                                    lastUpdated |-> stamp]) >>
      [] fetch.fn = "getAssetHistory" ->
            << Action("SET_STATE", [assetHistory |-> value,
                                    assetHistoryRange |-> fetch.arg.range,
                                    lastUpdated |-> stamp]) >>
      [] fetch.fn = "getTradeStatistics" ->
            << Action("SET_STATE", [tradeStats |-> value, lastUpdated |-> stamp]) >>
      [] fetch.fn = "getStrategies" -> << Action("SET_STRATEGIES", value) >>
      [] fetch.fn = "updateStrategyStatus" -> << Action("SET_STRATEGIES", value) >>
      [] fetch.fn = "getRiskMetrics" -> << Action("SET_RISK", value) >>
      [] fetch.fn = "getNotifications" -> << Action("SET_NOTIFICATIONS", value) >>
      [] fetch.fn = "acknowledgeNotification" -> <<>>

\* A refreshPerformance that leaves the range selector alone
refreshDispatch_NoSelector(fetch, value, clock) ==
    LET stamp == toISOString(clock) IN
    CASE fetch.fn = "getAccountBalance" -> << Action("UPSERT_BALANCES", value) >>
      [] fetch.fn = "getPositions" ->
            << Action("SET_STATE", [positions |-> value, lastUpdated |-> stamp]) >>
      [] fetch.fn = "getOrderHistory" ->
            << Action("SET_STATE", [orders |-> value, lastUpdated |-> stamp]) >>
      [] fetch.fn = "getTradeHistory" ->
            << Action("SET_STATE", [trades |-> value, lastUpdated |-> stamp]) >>
      [] fetch.fn = "getPerformanceMetrics" ->
            << Action("SET_STATE", [performance |-> value, lastUpdated |-> stamp]) >>
      [] fetch.fn = "getAssetHistory" ->
            << Action("SET_STATE", [assetHistory |-> value,
                                    assetHistoryRange |-> fetch.arg.range,
                                    lastUpdated |-> stamp]) >>
      [] fetch.fn = "getTradeStatistics" ->
            << Action("SET_STATE", [tradeStats |-> value, lastUpdated |-> stamp]) >>
      [] fetch.fn = "getStrategies" -> << Action("SET_STRATEGIES", value) >>
      [] fetch.fn = "updateStrategyStatus" -> << Action("SET_STRATEGIES", value) >>
      [] fetch.fn = "getRiskMetrics" -> << Action("SET_RISK", value) >>
      [] fetch.fn = "getNotifications" -> << Action("SET_NOTIFICATIONS", value) >>
      [] fetch.fn = "acknowledgeNotification" -> <<>>

\* What refreshBalances .. refreshNotifications and toggleStrategyStatus
\* dispatch once their fetch has returned value
refreshDispatch(fetch, value, clock) ==
    LET stamp == toISOString(clock) IN
    CASE fetch.fn = "getAccountBalance" -> << Action("UPSERT_BALANCES", value) >>
      [] fetch.fn = "getPositions" ->
            << Action("SET_STATE", [positions |-> value, lastUpdated |-> stamp]) >>
      [] fetch.fn = "getOrderHistory" ->
            << Action("SET_STATE", [orders |-> value, lastUpdated |-> stamp]) >>
      [] fetch.fn = "getTradeHistory" ->
            << Action("SET_STATE", [trades |-> value, lastUpdated |-> stamp]) >>
      [] fetch.fn = "getPerformanceMetrics" ->
            << Action("SET_STATE", [performance |-> value,
                                    performanceRange |-> fetch.arg.range,
                                    lastUpdated |-> stamp]) >>
      [] fetch.fn = "getAssetHistory" ->
            << Action("SET_STATE", [assetHistory |-> value,
                                    assetHistoryRange |-> fetch.arg.range,
                                    lastUpdated |-> stamp]) >>
      [] fetch.fn = "getTradeStatistics" ->
            << Action("SET_STATE", [tradeStats |-> value, lastUpdated |-> stamp]) >>
      [] fetch.fn = "getStrategies" -> << Action("SET_STRATEGIES", value) >>
      [] fetch.fn = "updateStrategyStatus" -> << Action("SET_STRATEGIES", value) >>
      [] fetch.fn = "getRiskMetrics" -> << Action("SET_RISK", value) >>
      [] fetch.fn = "getNotifications" -> << Action("SET_NOTIFICATIONS", value) >>
      [] fetch.fn = "acknowledgeNotification" -> <<>>

Message(text) == [kind |-> "message", text |-> text]

\* The SET_STATE of loadInitialData, { ...data, performanceRange: 'ALL', .. },
\* and the setLoading(false) of its finally
loadInitialSuccess(data, clock) ==
    << Action("SET_STATE",
              [performanceRange |-> "ALL", assetHistoryRange |-> "1M",
               loading |-> FALSE, error |-> Null,
               lastUpdated |-> toISOString(clock)] @@ data),
       Action("SET_LOADING", FALSE) >>

\* The catch and finally of loadInitialData and refreshAll
batchFailure ==
    << Action("SET_ERROR", Message("request failed")), Action("SET_LOADING", FALSE) >>

\* A refreshAll whose finally leaves the flag alone
refreshAllSuccess_KeepsLoading(clock) ==
    << Action("SET_ERROR", Null),
       Action("SET_STATE", [lastUpdated |-> toISOString(clock)]) >>

\* The end of the try block of refreshAll and its finally
refreshAllSuccess(clock) ==
    << Action("SET_ERROR", Null),
       Action("SET_STATE", [lastUpdated |-> toISOString(clock)]),
       Action("SET_LOADING", FALSE) >>

\* The result slots of getInitialAccountState before their fetches return
NoData ==
    [balance |-> <<>>, positions |-> <<>>, orders |-> <<>>, trades |-> <<>>,
     performance |-> Null, assetHistory |-> <<>>, tradeStats |-> Null,
     strategies |-> <<>>, risk |-> Null, notifications |-> <<>>]

NewCall(kind, queue) ==
    [kind |-> kind, queue |-> queue, data |-> NoData, failed |-> FALSE]

RemoveAt(s, i) == SubSeq(s, 1, i - 1) \o SubSeq(s, i + 1, Len(s))

\* The actions dispatched when the head fetch of call settles as r
continuation(call, r, clock) ==
    LET fetch == Head(call.queue)
        lastOne == Len(call.queue) = 1
    IN  CASE call.kind = "loadInitial" ->
                IF call.failed THEN <<>>
                ELSE IF r.status = "rejected" THEN batchFailure
                ELSE IF lastOne
                     THEN loadInitialSuccess(
                              [call.data EXCEPT ![SliceOf(fetch.fn)] = r.value], clock)
                     ELSE <<>>
          [] call.kind = "refreshAll" ->
                IF r.status = "rejected"
                THEN (IF call.failed THEN <<>> ELSE batchFailure)
                ELSE refreshDispatch(fetch, r.value, clock)
                        \o (IF lastOne /\ ~call.failed
                            THEN refreshAllSuccess(clock) ELSE <<>>)
          [] OTHER ->
                IF r.status = "rejected" THEN <<>>
                ELSE refreshDispatch(fetch, r.value, clock)

\* The call after its head fetch has settled as r
advance(call, r) ==
    [call EXCEPT
        !.queue = Tail(@),
        !.failed = @ \/ r.status = "rejected",
        !.data = IF call.kind = "loadInitial" /\ r.status = "fulfilled"
                 THEN [@ EXCEPT ![SliceOf(Head(call.queue).fn)] = r.value]
                 ELSE @]

----------------------------------------------------------------------------
(* Operations *)

Init ==
    /\ state = initialState
    /\ strategyCache = mockStrategies
    /\ riskCache = JSONClone(mockRiskMetrics)
    /\ calls = <<>>
    /\ pushed = 0
    /\ now = ModuleLoadTime
    /\ last = [op |-> "init"]
    /\ definition = 0
    /\ sockets = <<>>
    /\ ws = 0
    /\ timers = {}
    /\ timerCount = 0
    /\ reconnectTimer = 0
    /\ manualClose = FALSE
    /\ sent = <<>>
    /\ failures = 0
    /\ listeners = [event \in {"open", "message", "error", "close"} |-> <<>>]

\* Time passes
Tick ==
    /\ now < ModuleLoadTime + MaxTicks
    /\ now' = now + 1
    /\ last' = [op |-> "tick"]
    /\ UNCHANGED <<state, strategyCache, riskCache, calls, pushed>>
    /\ UNCHANGED wsVars

\* loadInitialData(), up to its await.  The mount effect calls it, once,
\* before the socket is set up and before any control is on screen.
loadInitialData ==
    /\ last.op = "init"
    /\ state' = accountReducer(state, Action("SET_LOADING", TRUE), now)
    /\ calls' = Append(calls, NewCall("loadInitial", BatchFetches("ALL", "1M")))
    /\ last' = [op |-> "loadInitialData"]
    /\ UNCHANGED <<strategyCache, riskCache, pushed, now>>
    /\ UNCHANGED wsVars

\* A refresh that abandons the requests in flight for the same resource
refresh_CancelsEarlier(fetch) ==
    /\ Len(calls) < MaxInflight
    /\ calls' = Append(SelectSeq(calls, LAMBDA c : Head(c.queue).fn # fetch.fn),
                       NewCall("refresh", <<fetch>>))
    /\ last' = [op |-> "refresh", fetch |-> fetch]
    /\ UNCHANGED <<state, strategyCache, riskCache, pushed, now>>
    /\ UNCHANGED wsVars

\* refreshBalances() .. refreshNotifications(), up to the await
refresh(fetch) ==
    /\ Len(calls) < MaxInflight
    /\ calls' = Append(calls, NewCall("refresh", <<fetch>>))
    /\ last' = [op |-> "refresh", fetch |-> fetch]
    /\ UNCHANGED <<state, strategyCache, riskCache, pushed, now>>
    /\ UNCHANGED wsVars

\* refreshAll(), up to the await of Promise.all
refreshAll ==
    /\ Len(calls) < MaxInflight
    /\ state' = accountReducer(state, Action("SET_LOADING", TRUE), now)
    /\ calls' = Append(calls,
                       NewCall("refreshAll",
                               BatchFetches(state.performanceRange,
                                            state.assetHistoryRange)))
    /\ last' = [op |-> "refreshAll"]
    /\ UNCHANGED <<strategyCache, riskCache, pushed, now>>
    /\ UNCHANGED wsVars

\* A toggle that takes the status asked for by a request still in flight
\* for the status of the strategy
toggleStrategyStatus_Optimistic(strategyId) ==
    LET index == findIndex(state.strategies, LAMBDA item : item.id = strategyId)
        pending == SelectSeq(calls, LAMBDA c :
                       /\ c.kind = "toggle"
                       /\ Head(c.queue).arg.strategyId = strategyId)
        current == IF pending # <<>>
                   THEN Head(pending[Len(pending)].queue).arg.status
                   ELSE IF index >= 1 THEN state.strategies[index].status ELSE ""
        nextStatus == IF current = "running" THEN "stopped" ELSE "running"
    IN  /\ Len(calls) < MaxInflight
        /\ calls' = Append(calls,
                           NewCall("toggle",
                                   << FetchOf("updateStrategyStatus",
                                              [strategyId |-> strategyId,
                                               status |-> nextStatus]) >>))
        /\ last' = [op |-> "toggleStrategyStatus", strategyId |-> strategyId,
                    status |-> nextStatus]
        /\ UNCHANGED <<state, strategyCache, riskCache, pushed, now>>
        /\ UNCHANGED wsVars

\* A toggle that asks for the status the strategy already has
toggleStrategyStatus_SameStatus(strategyId) ==
    LET index == findIndex(state.strategies, LAMBDA item : item.id = strategyId)
        nextStatus == IF index >= 1 /\ state.strategies[index].status = "running"
                      THEN "running" ELSE "stopped"
    IN  /\ Len(calls) < MaxInflight
        /\ calls' = Append(calls,
                           NewCall("toggle",
                                   << FetchOf("updateStrategyStatus",
                                              [strategyId |-> strategyId,
                                               status |-> nextStatus]) >>))
        /\ last' = [op |-> "toggleStrategyStatus", strategyId |-> strategyId,
                    status |-> nextStatus]
        /\ UNCHANGED <<state, strategyCache, riskCache, pushed, now>>
        /\ UNCHANGED wsVars

\* toggleStrategyStatus(strategyId), up to the await
toggleStrategyStatus(strategyId) ==
    LET index == findIndex(state.strategies, LAMBDA item : item.id = strategyId)
        nextStatus == IF index >= 1 /\ state.strategies[index].status = "running"
                      THEN "stopped" ELSE "running"
    IN  /\ Len(calls) < MaxInflight
        /\ calls' = Append(calls,
                           NewCall("toggle",
                                   << FetchOf("updateStrategyStatus",
                                              [strategyId |-> strategyId,
                                               status |-> nextStatus]) >>))
        /\ last' = [op |-> "toggleStrategyStatus", strategyId |-> strategyId,
                    status |-> nextStatus]
        /\ UNCHANGED <<state, strategyCache, riskCache, pushed, now>>
        /\ UNCHANGED wsVars

\* markNotificationRead(notificationId)
markNotificationRead(notificationId) ==
    /\ Len(calls) < MaxInflight
    /\ state' = accountReducer(state,
                               Action("MARK_NOTIFICATION",
                                      [id |-> notificationId, read |-> TRUE]), now)
    /\ calls' = Append(calls,
                       NewCall("acknowledge",
                               << FetchOf("acknowledgeNotification",
                                          [notificationId |-> notificationId]) >>))
    /\ last' = [op |-> "markNotificationRead", id |-> notificationId,
                lastUpdatedBefore |-> state.lastUpdated]
    /\ UNCHANGED <<strategyCache, riskCache, pushed, now>>
    /\ UNCHANGED wsVars

\* clearNotifications()
clearNotifications ==
    /\ state' = accountReducer(state, Action("SET_NOTIFICATIONS", <<>>), now)
    /\ last' = [op |-> "clearNotifications"]
    /\ UNCHANGED <<strategyCache, riskCache, calls, pushed, now>>
    /\ UNCHANGED wsVars

\* An updateRiskAlert that writes the store and leaves the cache of the layer
updateRiskAlert_StoreOnly(alertId, enabled) ==
    /\ last' = [op |-> "updateRiskAlert", alertId |-> alertId, enabled |-> enabled]
    /\ IF state.risk = Null
       THEN UNCHANGED <<state, riskCache>>
       ELSE LET alerts == state.risk.alerts
                nextRisk ==
                    [state.risk EXCEPT !.alerts =
                        [i \in 1..Len(alerts) |->
                            IF alerts[i].id = alertId
                            THEN [alerts[i] EXCEPT !.enabled = enabled]
                            ELSE alerts[i]]]
            IN  /\ riskCache' = riskCache
                /\ state' = accountReducer(state, Action("SET_RISK", nextRisk), now)
    /\ UNCHANGED <<strategyCache, calls, pushed, now>>
    /\ UNCHANGED wsVars

\* updateRiskAlert(alertId, enabled)
updateRiskAlert(alertId, enabled) ==
    /\ last' = [op |-> "updateRiskAlert", alertId |-> alertId, enabled |-> enabled]
    /\ IF state.risk = Null
       THEN UNCHANGED <<state, riskCache>>
       ELSE LET alerts == state.risk.alerts
                nextRisk ==
                    [state.risk EXCEPT !.alerts =
                        [i \in 1..Len(alerts) |->
                            IF alerts[i].id = alertId
                            THEN [alerts[i] EXCEPT !.enabled = enabled]
                            ELSE alerts[i]]]
            IN  /\ riskCache' = setRiskCache(nextRisk)
                /\ state' = accountReducer(state, Action("SET_RISK", nextRisk), now)
    /\ UNCHANGED <<strategyCache, calls, pushed, now>>
    /\ UNCHANGED wsVars

\* A handler that has no case for trade updates
handleRealtimeMessage_NoTrade(message) ==
    CASE message.type = "balance_update" -> << Action("UPSERT_BALANCES", message.payload) >>
      [] message.type = "position_update" -> << Action("UPSERT_POSITION", message.payload) >>
      [] message.type = "order_update" -> << Action("UPSERT_ORDER", message.payload) >>
      [] message.type = "risk_update" -> << Action("SET_RISK", message.payload) >>
      [] message.type = "notification" -> << Action("ADD_NOTIFICATION", message.payload) >>
      [] OTHER -> <<>>

\* handleRealtimeMessage(message): the action dispatched, <<>> for none
handleRealtimeMessage(message) ==
    CASE message.type = "balance_update" -> << Action("UPSERT_BALANCES", message.payload) >>
      [] message.type = "position_update" -> << Action("UPSERT_POSITION", message.payload) >>
      [] message.type = "order_update" -> << Action("UPSERT_ORDER", message.payload) >>
      [] message.type = "trade_update" -> << Action("UPSERT_TRADE", message.payload) >>
      [] message.type = "risk_update" -> << Action("SET_RISK", message.payload) >>
      [] message.type = "notification" -> << Action("ADD_NOTIFICATION", message.payload) >>
      [] OTHER -> <<>>

SortedDesc(list) ==
    \A i, j \in 1..Len(list) :
        i < j => getTime(list[i].timestamp) >= getTime(list[j].timestamp)

\* What is recorded of a handled frame: for an order or trade update whether
\* the list was in descending order before it, for a position update the
\* positions before it
Handled(data) ==
    LET type == IF "type" \in DOMAIN data THEN data.type ELSE "" IN
    [op |-> "message", data |-> data,
     sortedBefore |-> CASE type = "order_update" -> SortedDesc(state.orders)
                        [] type = "trade_update" -> SortedDesc(state.trades)
                        [] OTHER -> TRUE,
     before |-> IF type = "position_update" THEN state.positions ELSE <<>>]

\* The 'message' listener of the provider, called with the parsed frame
OnMessage(data) ==
    /\ IF "type" \in DOMAIN data
       THEN /\ state' = dispatchAll(state, handleRealtimeMessage(data), now)
            /\ riskCache' = IF data.type = "risk_update"
                            THEN setRiskCache(data.payload)
                            ELSE riskCache
       ELSE UNCHANGED <<state, riskCache>>
    /\ last' = Handled(data)
    /\ UNCHANGED <<strategyCache, calls, now>>
    /\ UNCHANGED wsVars

\* A remote request of call i ends with response; recorded tells whether
\* last keeps the value the fetch returned
SettleStep(i, response, recorded) ==
    LET call == calls[i]
        fetch == Head(call.queue)
        r == Fetch(fetch, response, strategyCache, riskCache, now)
        refreshesRisk == /\ fetch.fn = "getRiskMetrics"
                         /\ call.kind \in {"refresh", "refreshAll"}
                         /\ r.status = "fulfilled"
    IN  /\ strategyCache' = r.strategyCache
        /\ riskCache' = IF refreshesRisk THEN setRiskCache(r.value) ELSE r.riskCache
        /\ state' = dispatchAll(state, continuation(call, r, now), now)
        /\ calls' = IF Len(call.queue) = 1
                    THEN RemoveAt(calls, i)
                    ELSE [calls EXCEPT ![i] = advance(call, r)]
        /\ last' = [op |-> "settle", kind |-> call.kind, fetch |-> fetch,
                    ok |-> response.ok, status |-> r.status,
                    value |-> IF recorded THEN r.value ELSE Undefined,
                    done |-> Len(call.queue) = 1, failed |-> call.failed]
        /\ UNCHANGED <<pushed, now>>
        /\ UNCHANGED wsVars

Settle(i, response) == SettleStep(i, response, TRUE)

SettleFail == \E i \in 1..Len(calls) : Settle(i, [ok |-> FALSE])

\* A request to one of the endpoints fns is answered
SettleOkOf(fns) ==
    \E i \in 1..Len(calls) :
        /\ Head(calls[i].queue).fn \in fns
        /\ \E data \in LiveData(Head(calls[i].queue)) :
                Settle(i, [ok |-> TRUE, data |-> data])

AllEndpoints ==
    {"getAccountBalance", "getPositions", "getOrderHistory", "getTradeHistory",
     "getPerformanceMetrics", "getAssetHistory", "getTradeStatistics",
     "getStrategies", "updateStrategyStatus", "getRiskMetrics", "getNotifications",
     "acknowledgeNotification"}

SettleOk == SettleOkOf(AllEndpoints)

----------------------------------------------------------------------------
(* The push channel delivering a parsed frame to the 'message' listener *)

OrderMessages == {[type |-> "order_update", payload |-> o] : o \in LiveOrders}
TradeMessages == {[type |-> "trade_update", payload |-> t] : t \in LiveTrades}
PositionMessages == {[type |-> "position_update", payload |-> p] : p \in LivePositions}

PushOrder == (\E data \in OrderMessages : OnMessage(data)) /\ pushed' = pushed
PushTrade == (\E data \in TradeMessages : OnMessage(data)) /\ pushed' = pushed
PushPosition == (\E data \in PositionMessages : OnMessage(data)) /\ pushed' = pushed

\* The store fed by order and trade updates only, starting empty
NextUpsert == PushOrder \/ PushTrade
SpecUpsert == Init /\ [][NextUpsert]_vars

\* The store fed by position updates only, starting empty
NextPositions == PushPosition \/ Tick
SpecPositions == Init /\ [][NextPositions]_vars

\* Orders and trades under snapshots and updates: the order and trade
\* endpoints answer or fail, the other endpoints are down
SyncOrderMessages ==
    {[type |-> "order_update", payload |-> o] :
        o \in {x \in LiveOrders :
                 /\ x.status = "OPEN"
                 /\ x.id = "C" \/ (x.id = "A" /\ x.timestamp = toISOString(2))}}
SyncTradeMessages ==
    {[type |-> "trade_update", payload |-> t] :
        t \in {x \in LiveTrades : x.id = "T1" /\ x.timestamp = toISOString(2)}}

PushSyncOrder == (\E data \in SyncOrderMessages : OnMessage(data)) /\ pushed' = pushed
PushSyncTrade == (\E data \in SyncTradeMessages : OnMessage(data)) /\ pushed' = pushed
RefreshOrders == refresh(FetchOf("getOrderHistory", NoArg))
RefreshTrades == refresh(FetchOf("getTradeHistory", NoArg))
SettleOkOrders == SettleOkOf({"getOrderHistory", "getTradeHistory"})

NextOrders ==
    \/ loadInitialData
    \/ RefreshOrders
    \/ RefreshTrades
    \/ SettleFail
    \/ SettleOkOrders
    \/ PushSyncOrder
    \/ PushSyncTrade
SpecOrders == Init /\ [][NextOrders]_vars

\* The push channel emits its next notification, the limit-th at most
PushNotificationUpTo(limit) ==
    /\ pushed < limit
    /\ OnMessage([type |-> "notification", payload |-> PushedNotification(pushed + 1)])
    /\ pushed' = pushed + 1

PushNotification == PushNotificationUpTo(MaxPushed)

\* The notification list fed by the push channel and cleared by the user
NextNotifications == PushNotification \/ clearNotifications
SpecNotifications == Init /\ [][NextNotifications]_vars

\* Notifications under loadInitialData, refreshAll, the push channel and the
\* user: the notification endpoint answers or fails, the others are down
NotificationIds == {"notif-001", "1", "absent"}
PushSyncNotification == PushNotificationUpTo(MaxSyncPushed)
MarkRead == \E id \in NotificationIds : markNotificationRead(id)
SettleOkNotifications == SettleOkOf({"getNotifications"})

NextNotificationSync ==
    \/ loadInitialData
    \/ refreshAll
    \/ SettleFail
    \/ SettleOkNotifications
    \/ PushSyncNotification
    \/ MarkRead
    \/ clearNotifications
    \/ Tick
SpecNotificationSync == Init /\ [][NextNotificationSync]_vars

\* Strategies toggled, risk alerts switched and risk and balance updates
\* pushed
RiskMessages == {[type |-> "risk_update", payload |-> LiveRisk("push")]}
BalanceMessages == {[type |-> "balance_update", payload |-> LiveBalances]}
PushRisk == (\E data \in RiskMessages : OnMessage(data)) /\ pushed' = pushed
PushBalance == (\E data \in BalanceMessages : OnMessage(data)) /\ pushed' = pushed
ToggleStrategy == toggleStrategyStatus("strat-001")
UpdateRiskAlert == updateRiskAlert("alert-001", TRUE)
MarkFirstRead == markNotificationRead("notif-001")
\* refreshAll() started while no other call is in flight
RefreshAllIdle == calls = <<>> /\ refreshAll
SettleOkCached ==
    SettleOkOf({"getStrategies", "updateStrategyStatus", "getRiskMetrics"})

\* The initial load with every endpoint failing
NextLoadFail ==
    \/ loadInitialData
    \/ SettleFail
    \/ ToggleStrategy
    \/ UpdateRiskAlert
    \/ PushRisk
    \/ Tick
SpecLoadFail == Init /\ [][NextLoadFail]_vars

\* Every fetch of the layer, failing; the strategy and risk endpoints may
\* also answer
NextFetch ==
    \/ loadInitialData
    \/ RefreshAllIdle
    \/ ToggleStrategy
    \/ MarkFirstRead
    \/ SettleFail
    \/ SettleOkCached
SpecFetch == Init /\ [][NextFetch]_vars

\* The caches of the layer: failing fetches after toggles, alert switches,
\* pushed updates and answers of the strategy and risk endpoints
NextCache ==
    \/ loadInitialData
    \/ RefreshAllIdle
    \/ ToggleStrategy
    \/ UpdateRiskAlert
    \/ PushRisk
    \/ PushBalance
    \/ SettleFail
    \/ SettleOkCached
SpecCache == Init /\ [][NextCache]_vars

RoutedPositionMessages ==
    {m \in PositionMessages : m.payload.symbol = "BTC/USDT"}
PushRoutedPosition ==
    (\E data \in RoutedPositionMessages : OnMessage(data)) /\ pushed' = pushed

\* Snapshots against updates.  While a request is in flight the push channel
\* delivers updates of order A that are newer than the order A of the
\* snapshot the endpoint answers with, and position updates.
StaleOrderMessages ==
    {m \in OrderMessages : m.payload.id = "A" /\ m.payload.timestamp = toISOString(2)}
PushOrderInFlight ==
    /\ calls # <<>>
    /\ pushed < MaxSyncPushed
    /\ \E data \in StaleOrderMessages : OnMessage(data)
    /\ pushed' = pushed + 1
RefreshPositions == refresh(FetchOf("getPositions", NoArg))
SettleOkSnapshot == SettleOkOf({"getPositions", "getOrderHistory"})

NextSnapshot ==
    \/ loadInitialData
    \/ RefreshAllIdle
    \/ RefreshOrders
    \/ RefreshPositions
    \/ SettleFail
    \/ SettleOkSnapshot
    \/ PushOrderInFlight
    \/ PushRoutedPosition
SpecSnapshot == Init /\ [][NextSnapshot]_vars

\* Strategies toggled by id once the initial load has begun, the strategy
\* endpoints answering or failing
StrategyIds == {"strat-001", "strat-002", "strat-003"}
ToggleAny == last.op # "init" /\ \E id \in StrategyIds : toggleStrategyStatus(id)
NextToggle ==
    \/ loadInitialData
    \/ ToggleAny
    \/ SettleFail
    \/ SettleOkCached
SpecToggle == Init /\ [][NextToggle]_vars

\* Overlapping batches: loadInitialData and refreshAll calls, up to
\* MaxInflight of them in flight at a time
NextBatches ==
    \/ loadInitialData
    \/ refreshAll
    \/ SettleFail
    \/ SettleOkSnapshot
    \/ Tick
SpecBatches == Init /\ [][NextBatches]_vars

\* The same, when no request stays unanswered for ever: the oldest call in
\* flight sees its next request end, with an answer or with a failure
SettlesWith(i, ok) ==
    IF ok
    THEN /\ Head(calls[i].queue).fn \in {"getPositions", "getOrderHistory"}
         /\ \E data \in LiveData(Head(calls[i].queue)) :
                SettleStep(i, [ok |-> TRUE, data |-> data], FALSE)
    ELSE SettleStep(i, [ok |-> FALSE], FALSE)
SettleAnswered == \E i \in 1..Len(calls) : SettlesWith(i, TRUE)
SettleFailed == \E i \in 1..Len(calls) : SettlesWith(i, FALSE)
SettleOldest == calls # <<>> /\ \E ok \in BOOLEAN : SettlesWith(1, ok)
NextBatchesFair ==
    \/ loadInitialData
    \/ refreshAll
    \/ SettleFailed
    \/ SettleAnswered
SpecBatchesFair == Init /\ [][NextBatchesFair]_vars /\ WF_vars(SettleOldest)

\* Every kind of parsed frame reaching the listener of the provider: the six
\* message types, types the handler does not know, an object without a type
\* field, and values that are no object
UnroutedFrames ==
    {[type |-> "heartbeat"],
     [type |-> "order_updated", payload |-> Order("A", toISOString(1), "BTC/USDT", "BUY", "OPEN")],
     [payload |-> LiveBalances],
     Null,
     [kind |-> "string", text |-> "balance_update"]}
PushUnrouted == (\E data \in UnroutedFrames : OnMessage(data)) /\ pushed' = pushed

NextRouting ==
    \/ PushBalance
    \/ PushRoutedPosition
    \/ PushSyncOrder
    \/ PushSyncTrade
    \/ PushRisk
    \/ PushSyncNotification
    \/ PushUnrouted
SpecRouting == Init /\ [][NextRouting]_vars

\* Refreshes of single resources, two of them in flight at a time, each
\* request answered; the requests for strategies and risk may also fail
RefreshedPerformanceRanges == {"WEEK"}
RefreshedTimeRanges == {"1W"}
RefreshFetches ==
    {FetchOf(fn, NoArg) :
        fn \in {"getAccountBalance", "getPositions", "getOrderHistory",
                "getTradeHistory", "getTradeStatistics", "getStrategies",
                "getRiskMetrics", "getNotifications"}}
    \cup {FetchOf("getPerformanceMetrics", [range |-> r]) :
            r \in RefreshedPerformanceRanges}
    \cup {FetchOf("getAssetHistory", [range |-> r]) : r \in RefreshedTimeRanges}
RefreshAny == \E fetch \in RefreshFetches : refresh(fetch)

\* A request to an endpoint whose fallback is a cache of the layer fails
SettleFailCached ==
    \E i \in 1..Len(calls) :
        /\ Head(calls[i].queue).fn \in {"getStrategies", "getRiskMetrics"}
        /\ Settle(i, [ok |-> FALSE])

NextRefresh ==
    \/ RefreshAny
    \/ SettleFailCached
    \/ SettleOk
SpecRefresh == Init /\ [][NextRefresh]_vars

\* Two requests for one resource with different parameters: the first is
\* made while nothing is in flight, the second while the first is in flight
FirstFetches ==
    {FetchOf("getOrderHistory", [symbol |-> "BTC/USDT"]),
     FetchOf("getTradeHistory", [symbol |-> "BTC/USDT"]),
     FetchOf("getPerformanceMetrics", [range |-> "WEEK"]),
     FetchOf("getAssetHistory", [range |-> "1W"]),
     FetchOf("getTradeStatistics", [symbol |-> "BTC/USDT"])}
SecondFetches ==
    {FetchOf("getOrderHistory", [side |-> "BUY"]),
     FetchOf("getTradeHistory", [side |-> "BUY"]),
     FetchOf("getPerformanceMetrics", [range |-> "MONTH"]),
     FetchOf("getAssetHistory", [range |-> "1M"]),
     FetchOf("getTradeStatistics", [side |-> "BUY"])}
RefreshFirst == calls = <<>> /\ \E fetch \in FirstFetches : refresh(fetch)
RefreshSecond ==
    /\ Len(calls) = 1
    /\ Head(calls[1].queue) \in FirstFetches
    /\ \E fetch \in SecondFetches :
            fetch.fn = Head(calls[1].queue).fn /\ refresh(fetch)

NextOverlap ==
    \/ RefreshFirst
    \/ RefreshSecond
    \/ SettleFail
    \/ SettleOk
SpecOverlap == Init /\ [][NextOverlap]_vars

\* Loads, refreshes and realtime updates of every kind while time passes;
\* the push channel delivers MaxSyncPushed updates, each of any type
PushCounted ==
    /\ pushed < MaxSyncPushed
    /\ \/ \E data \in BalanceMessages : OnMessage(data)
       \/ \E data \in RoutedPositionMessages : OnMessage(data)
       \/ \E data \in SyncOrderMessages : OnMessage(data)
       \/ \E data \in SyncTradeMessages : OnMessage(data)
       \/ \E data \in RiskMessages : OnMessage(data)
       \/ OnMessage([type |-> "notification", payload |-> PushedNotification(pushed + 1)])
    /\ pushed' = pushed + 1

StampedFetches ==
    {FetchOf(fn, NoArg) : fn \in {"getPositions", "getOrderHistory", "getStrategies"}}
RefreshIdle == calls = <<>> /\ \E fetch \in StampedFetches : refresh(fetch)

NextStamp ==
    \/ loadInitialData
    \/ RefreshAllIdle
    \/ RefreshIdle
    \/ SettleFail
    \/ SettleOkSnapshot
    \/ PushCounted
    \/ Tick
SpecStamp == Init /\ [][NextStamp]_vars

\* Loads, refreshes and realtime updates of risk and balances, with every
\* request answered or failing
NextError ==
    \/ loadInitialData
    \/ RefreshAllIdle
    \/ RefreshIdle
    \/ SettleFail
    \/ SettleOk
    \/ PushRisk
    \/ PushBalance
SpecError == Init /\ [][NextError]_vars

\* The performance and asset views switching ranges while batches reload
\* every resource; the two ranged endpoints may answer, every endpoint may
\* fail
RangedFetches ==
    {FetchOf("getPerformanceMetrics", [range |-> r]) : r \in {"WEEK", "MONTH"}}
    \cup {FetchOf("getAssetHistory", [range |-> r]) : r \in {"1D", "1W"}}
RefreshRanged == \E fetch \in RangedFetches : refresh(fetch)
SettleOkRanged == SettleOkOf({"getPerformanceMetrics", "getAssetHistory"})

NextRanges ==
    \/ loadInitialData
    \/ refreshAll
    \/ RefreshRanged
    \/ SettleFail
    \/ SettleOkRanged
SpecRanges == Init /\ [][NextRanges]_vars

\* Pairs of toggles of one strategy: the first is made while nothing is in
\* flight, the second before the request of the first has ended; the id may
\* be that of no strategy
ToggledIds == StrategyIds \cup {"strat-404"}
ToggleFirst ==
    /\ last.op # "init"
    /\ calls = <<>>
    /\ \E id \in ToggledIds : toggleStrategyStatus(id)
ToggleSecond ==
    /\ last.op = "toggleStrategyStatus"
    /\ Len(calls) = 1
    /\ calls[1].kind = "toggle"
    /\ toggleStrategyStatus(Head(calls[1].queue).arg.strategyId)

NextTogglePair ==
    \/ loadInitialData
    \/ ToggleFirst
    \/ ToggleSecond
    \/ SettleFail
    \/ SettleOkCached
SpecTogglePair == Init /\ [][NextTogglePair]_vars

\* Risk alerts switched on and off, of the mock metrics, of the answer of
\* the server and of no metrics, before and after the initial load, with
\* refreshRisk started while nothing is in flight and risk frames pushed
SwitchedAlertIds == {"alert-001", "alert-003", "alert-404"}
UpdateAnyRiskAlert ==
    \E alertId \in SwitchedAlertIds, enabled \in BOOLEAN :
        updateRiskAlert(alertId, enabled)
RefreshRiskIdle == calls = <<>> /\ refresh(FetchOf("getRiskMetrics", NoArg))
SettleOkRisk == SettleOkOf({"getRiskMetrics"})

NextRiskAlert ==
    \/ loadInitialData
    \/ RefreshRiskIdle
    \/ UpdateAnyRiskAlert
    \/ PushRisk
    \/ SettleFail
    \/ SettleOkRisk
SpecRiskAlert == Init /\ [][NextRiskAlert]_vars

\* The filters a page may pass to refreshOrders and refreshTrades: every field
\* may be absent; a bound may fall on the instant of a base record
FilterBounds ==
    {EmptyString, InvalidDate, hoursAgo(5), [local |-> ModuleLoadTime - 4, off |-> 1],
     daysAgo(3)}
FullFilters ==
    [symbol : {"", "ALL", "BTC/USDT", "DOGE/USDT"},
     side : {"ALL", "BUY"},
     status : {"ALL", "FILLED"},
     start : FilterBounds,
     end : FilterBounds]
Restrict(f, fields) == [x \in fields |-> f[x]]
OrderFilters ==
    {Undefined} \cup
    {Restrict(f, fields) : f \in FullFilters,
                           fields \in SUBSET {"symbol", "side", "status", "start", "end"}}
TradeFilters ==
    {Undefined} \cup
    {Restrict(f, fields) : f \in FullFilters,
                           fields \in SUBSET {"symbol", "side", "start", "end"}}
\* The first request of a page, with its filters
RefreshOrdersFiltered ==
    last.op = "init" /\ \E filters \in OrderFilters : refresh(FetchOf("getOrderHistory", filters))
RefreshTradesFiltered ==
    last.op = "init" /\ \E filters \in TradeFilters : refresh(FetchOf("getTradeHistory", filters))

\* Filtered order and trade histories with the endpoints failing
NextFilter ==
    \/ RefreshOrdersFiltered
    \/ RefreshTradesFiltered
    \/ SettleFail
SpecFilter == Init /\ [][NextFilter]_vars

----------------------------------------------------------------------------
(* RealtimeTransport: utils/websocket.js.  The file defines the class
   WebSocketClient twice; definition is the one the provider's import is bound
   to (0 before the client is constructed).  sockets holds the readyState of
   every WebSocket created, ws is the index of this.ws (0 for null), timers
   the ids of the pending timeouts, reconnectTimer the id in this.reconnectTimer
   (0 for null, definition 2 only), sent the frames transmitted. *)

storeVars == <<state, strategyCache, riskCache, calls, pushed, now>>

Client ==
    [sockets |-> sockets, ws |-> ws, timers |-> timers, timerCount |-> timerCount,
     reconnectTimer |-> reconnectTimer, manualClose |-> manualClose]

Becomes(c) ==
    /\ sockets' = c.sockets
    /\ ws' = c.ws
    /\ timers' = c.timers
    /\ timerCount' = c.timerCount
    /\ reconnectTimer' = c.reconnectTimer
    /\ manualClose' = c.manualClose

\* window.setTimeout(() => this.connect(), this.reconnectInterval)
setTimeout(c) ==
    [c EXCEPT !.timers = @ \cup {c.timerCount + 1}, !.timerCount = @ + 1]

\* scheduleReconnect() of the second definition
scheduleReconnect(c) ==
    LET cleared == [c EXCEPT !.timers = @ \ {c.reconnectTimer}]
    IN  [setTimeout(cleared) EXCEPT !.reconnectTimer = c.timerCount + 1]

\* this.ws?.readyState === WebSocket.OPEN
isOpen(c) == c.ws # 0 /\ c.sockets[c.ws] = "OPEN"

\* connect(); threw tells whether new WebSocket(url) throws
connect(c, threw) ==
    IF definition = 2 /\ isOpen(c) THEN c
    ELSE IF threw
         THEN (IF definition = 2 THEN scheduleReconnect(c) ELSE c)
         ELSE [c EXCEPT !.sockets = Append(@, "CONNECTING"),
                        !.ws = Len(c.sockets) + 1]

\* WebSocket.close() on socket i (0: no socket)
close(all, i) ==
    IF i # 0 /\ all[i] \in {"CONNECTING", "OPEN"}
    THEN [all EXCEPT ![i] = "CLOSING"]
    ELSE all

disconnect(c) ==
    IF definition = 2
    THEN [c EXCEPT !.manualClose = TRUE,
                   !.timers = @ \ {c.reconnectTimer},
                   !.reconnectTimer = 0,
                   !.sockets = close(@, c.ws),
                   !.ws = 0]
    ELSE [c EXCEPT !.sockets = close(@, c.ws)]

\* The onclose handler, after emit('close')
onclose(c) ==
    IF definition = 2
    THEN (IF ~c.manualClose THEN scheduleReconnect(c) ELSE c)
    ELSE setTimeout(c)

\* Frames: the text of a JSON value, or a text that is no JSON
JSONStringify(value) == [json |-> value]
JSONParse(text) ==
    IF "json" \in DOMAIN text
    THEN [threw |-> FALSE, value |-> text.json]
    ELSE [threw |-> TRUE, value |-> Undefined]

InboundFrames ==
    {JSONStringify([type |-> "balance_update", payload |-> LiveBalances]),
     JSONStringify([type |-> "heartbeat"]),
     JSONStringify(Null),
     [garbage |-> "{oops"]}

Payloads == {[type |-> "ping"]}

\* Listeners.  A callback is [id, throws]: id tells the registrations apart,
\* throws whether the callback throws when it is called.  The callback the
\* provider registers for 'message' is not kept in listeners: it is the first
\* of its list and is run by SocketFrame.
Events == {"open", "message", "error", "close"}

\* on(event, callback): this.listeners afterwards
on(registered, event, callback) ==
    [registered EXCEPT ![event] = Append(@, callback)]

Invocation(event, callback) == [event |-> event, id |-> callback.id]

\* An emit that calls the callbacks last registered first
emit_Reversed(registered, event) ==
    LET callbacks == registered[event]
        n == Len(callbacks)
    IN  [invoked |-> [i \in 1..n |-> Invocation(event, callbacks[n + 1 - i])],
         threw |-> FALSE]

\* emit(event, payload): callbacks.forEach(callback => callback(payload)).
\* The calls made, in order, and whether a callback threw: forEach stops at
\* the first callback that throws.
emit(registered, event) ==
    LET callbacks == registered[event]
        throwing == {i \in 1..Len(callbacks) : callbacks[i].throws}
        stop == IF throwing = {} THEN Len(callbacks)
                ELSE CHOOSE i \in throwing : \A j \in throwing : i <= j
    IN  [invoked |-> [i \in 1..stop |-> Invocation(event, callbacks[i])],
         threw |-> throwing # {}]

\* client.on(event, callback)
On ==
    /\ definition # 0
    /\ \E event \in Events, throws \in BOOLEAN :
            LET n == Len(listeners["open"]) + Len(listeners["message"])
                        + Len(listeners["error"]) + Len(listeners["close"])
            IN  /\ n < MaxListeners
                /\ listeners' = on(listeners, event, [id |-> n + 1, throws |-> throws])
                /\ last' = [op |-> "on", event |-> event]
    /\ UNCHANGED <<storeVars, definition, sockets, ws, timers, timerCount,
                   reconnectTimer, manualClose, sent, failures>>

\* new WebSocketClient(wsUrl)
Construct ==
    /\ definition = 0
    /\ definition' \in {1, 2}
    /\ last' = [op |-> "construct"]
    /\ UNCHANGED <<storeVars, sockets, ws, timers, timerCount, reconnectTimer,
                   manualClose, sent, failures, listeners>>

\* A run of connect() from client state c
Connects(c, threw) ==
    LET next == connect(c, threw)
        constructs == ~(definition = 2 /\ isOpen(c))
    IN  /\ threw => constructs /\ failures < MaxFailures
        /\ Len(next.sockets) <= MaxSockets
        /\ Becomes(next)
        /\ failures' = IF threw THEN failures + 1 ELSE failures
        /\ UNCHANGED <<storeVars, definition, sent, listeners>>

\* client.connect()
Connect ==
    /\ definition # 0
    /\ \E threw \in BOOLEAN :
            /\ Connects(Client, threw)
            /\ last' = [op |-> "connect", threw |-> threw]

\* A pending timeout fires and calls connect()
TimerFires ==
    /\ definition # 0
    /\ \E t \in timers, threw \in BOOLEAN :
            /\ Connects([Client EXCEPT !.timers = @ \ {t}], threw)
            /\ last' = [op |-> "timer", timer |-> t, threw |-> threw]

\* client.disconnect()
Disconnect ==
    /\ definition # 0
    /\ Becomes(disconnect(Client))
    /\ last' = [op |-> "disconnect"]
    /\ UNCHANGED <<storeVars, definition, sent, failures, listeners>>

\* A send that hands the frame to the socket whatever its readyState
send_Always(c, transmitted, payload) == Append(transmitted, JSONStringify(payload))

\* send(payload): the frames transmitted afterwards
send(c, transmitted, payload) ==
    IF isOpen(c) THEN Append(transmitted, JSONStringify(payload)) ELSE transmitted

\* client.send(payload)
Send ==
    /\ definition # 0
    /\ Len(sent) < MaxSent
    /\ \E payload \in Payloads :
            /\ sent' = send(Client, sent, payload)
            /\ last' = [op |-> "send", payload |-> payload]
    /\ UNCHANGED <<storeVars, definition, sockets, ws, timers, timerCount,
                   reconnectTimer, manualClose, failures, listeners>>

\* The open event of socket i
SocketOpens ==
    \E i \in 1..Len(sockets) :
        /\ sockets[i] = "CONNECTING"
        /\ sockets' = [sockets EXCEPT ![i] = "OPEN"]
        /\ last' = [op |-> "open", socket |-> i, after |-> last.op,
                    invoked |-> emit(listeners, "open").invoked]
        /\ UNCHANGED <<storeVars, definition, ws, timers, timerCount,
                       reconnectTimer, manualClose, sent, failures, listeners>>

\* Socket i closes: the close event, preceded by the error event when the
\* connection failed.  The close is unexpected unless close() ran on i.  A
\* 'close' listener that throws ends the onclose handler before it schedules.
SocketCloses ==
    \E i \in 1..Len(sockets), error \in BOOLEAN :
        LET expected == sockets[i] = "CLOSING"
            closed == [Client EXCEPT !.sockets[i] = "CLOSED"]
            onError == IF error THEN emit(listeners, "error").invoked ELSE <<>>
            onClose == emit(listeners, "close")
        IN
        /\ sockets[i] # "CLOSED"
        /\ sockets[i] = "CONNECTING" => error
        /\ ~expected => failures < MaxFailures
        /\ Becomes(IF onClose.threw THEN closed ELSE onclose(closed))
        /\ failures' = IF expected THEN failures ELSE failures + 1
        /\ last' = [op |-> "close", socket |-> i, error |-> error,
                    expected |-> expected, invoked |-> onError \o onClose.invoked]
        /\ UNCHANGED <<storeVars, definition, sent, listeners>>

\* An onmessage without the try/catch around JSON.parse
onmessage_NoCatch(text) == << JSONParse(text).value >>

\* The onmessage handler: the payloads it emits as 'message' events
onmessage(text) ==
    LET parsed == JSONParse(text) IN
    IF parsed.threw THEN <<>> ELSE << parsed.value >>

\* The message event of socket i with frame text; a payload emitted goes to
\* the listener of the provider and then to the other 'message' listeners
SocketFrame ==
    \E i \in 1..Len(sockets), text \in InboundFrames :
        LET emitted == onmessage(text)
            frame == [socket |-> i, text |-> text, after |-> last.op,
                      invoked |-> IF emitted = <<>> THEN <<>>
                                  ELSE emit(listeners, "message").invoked]
        IN  /\ sockets[i] = "OPEN"
            /\ IF emitted = <<>>
               THEN /\ last' = [op |-> "frame"] @@ frame
                    /\ UNCHANGED <<state, riskCache>>
               ELSE LET data == emitted[1] IN
                    /\ IF "type" \in DOMAIN data
                       THEN /\ state' = dispatchAll(state, handleRealtimeMessage(data), now)
                            /\ riskCache' = IF data.type = "risk_update"
                                            THEN setRiskCache(data.payload)
                                            ELSE riskCache
                       ELSE UNCHANGED <<state, riskCache>>
                    /\ last' = Handled(data) @@ frame
            /\ UNCHANGED <<strategyCache, calls, pushed, now, wsVars>>

\* The transport under every sequence of calls and connection events
NextTransport ==
    \/ Construct
    \/ Connect
    \/ Disconnect
    \/ Send
    \/ TimerFires
    \/ SocketOpens
    \/ SocketCloses
    \/ SocketFrame
SpecTransport == Init /\ [][NextTransport]_vars

\* Inbound frames on connections that open, fail and are reconnected
NextFrames ==
    \/ Construct
    \/ Connect
    \/ TimerFires
    \/ SocketOpens
    \/ SocketCloses
    \/ SocketFrame
SpecFrames == Init /\ [][NextFrames]_vars

\* The provider's transport when disconnect() is never called: connect() is
\* called once, timeouts fire and connection attempts end; once MaxFailures
\* attempts or connections have failed the endpoint accepts connections
ConnectOnce == sockets = <<>> /\ timers = {} /\ failures = 0 /\ Connect
NextReconnect ==
    \/ Construct
    \/ ConnectOnce
    \/ TimerFires
    \/ SocketOpens
    \/ SocketCloses
    \/ SocketFrame
    \/ Send
SpecReconnect ==
    /\ Init /\ [][NextReconnect]_vars
    /\ WF_vars(TimerFires)
    /\ WF_vars(SocketOpens)

\* Callbacks registered before connect() is called, as the provider does
Register == sockets = <<>> /\ timers = {} /\ failures = 0 /\ On
\* Events emitted to the registered callbacks on connections that open,
\* receive frames, fail and are reconnected
NextListeners ==
    \/ Construct
    \/ Register
    \/ ConnectOnce
    \/ TimerFires
    \/ SocketOpens
    \/ SocketCloses
    \/ SocketFrame
SpecListeners == Init /\ [][NextListeners]_vars

\* The provider's transport over the life of the provider: connect() once
\* when it mounts, disconnect() when it unmounts, and whatever the
\* connections and the timeouts do before and after
Unmount == ~(sockets = <<>> /\ timers = {} /\ failures = 0) /\ Disconnect
NextUnmount ==
    \/ Construct
    \/ ConnectOnce
    \/ Unmount
    \/ TimerFires
    \/ SocketOpens
    \/ SocketCloses
    \/ SocketFrame
\* A timeout that is set fires and a socket that can open does
SpecUnmount ==
    /\ Init /\ [][NextUnmount]_vars
    /\ WF_vars(TimerFires)
    /\ WF_vars(SocketOpens)

\* Outbound payloads
NextSend ==
    \/ Construct
    \/ Connect
    \/ Disconnect
    \/ Send
    \/ TimerFires
    \/ SocketOpens
    \/ SocketCloses
SpecSend == Init /\ [][NextSend]_vars

----------------------------------------------------------------------------
(* Properties *)

ids(list) == {list[i].id : i \in 1..Len(list)}

UniqueIds(list) == \A i, j \in 1..Len(list) : list[i].id = list[j].id => i = j

StrictlySortedDesc(list) ==
    \A i, j \in 1..Len(list) :
        i < j => getTime(list[i].timestamp) > getTime(list[j].timestamp)

Entries(list) == {list[i] : i \in 1..Len(list)}

IsUpsert(l, type) == l.op = "message" /\ "type" \in DOMAIN l.data /\ l.data.type = type

\* After an upsert of payload the list holds payload and, of the other ids,
\* exactly the entries it held before
UpsertKeepsOthers(before, after, payload) ==
    Entries(after) = {payload} \cup {e \in Entries(before) : e.id # payload.id}


(* C1 as stated: after any sequence of order and trade upserts from the    *)
(* empty store both lists are in STRICTLY descending order of timestamp.   *)
C1_StrictlySorted ==
    StrictlySortedDesc(state.orders) /\ StrictlySortedDesc(state.trades)

(* C1 amended: after any sequence of order and trade upserts from the      *)
(* empty store both lists are in descending order of timestamp (entries of *)
(* different ids may share an instant), hold at most one entry per id, and *)
(* each upsert leaves its payload as the entry of its id and the entries   *)
(* of the other ids as they were.                                          *)
C1_UpsertSortedUnique ==
    /\ [](/\ SortedDesc(state.orders) /\ UniqueIds(state.orders)
          /\ SortedDesc(state.trades) /\ UniqueIds(state.trades))
    /\ [][/\ IsUpsert(last', "order_update") =>
                /\ UpsertKeepsOthers(state.orders, state'.orders, last'.data.payload)
                /\ state'.trades = state.trades
          /\ IsUpsert(last', "trade_update") =>
                /\ UpsertKeepsOthers(state.trades, state'.trades, last'.data.payload)
                /\ state'.orders = state.orders]_vars

\* An order upsert has left three orders, two of them at one instant, and
\* two trades are held
C1_Witness ==
    /\ IsUpsert(last, "order_update")
    /\ Len(state.orders) = 3
    /\ ~StrictlySortedDesc(state.orders)
    /\ Len(state.trades) = 2

UniqueSymbols(list) ==
    \A i, j \in 1..Len(list) : list[i].symbol = list[j].symbol => i = j

HasSymbol(list, symbol) == \E i \in 1..Len(list) : list[i].symbol = symbol

(* C7: after any sequence of position upserts from the empty store the     *)
(* list holds one entry per symbol; an upsert of a symbol already held     *)
(* puts the payload at the index of that symbol and leaves the other       *)
(* entries in place, an upsert of a new symbol appends the payload.        *)
C7_UpsertPosition ==
    /\ [](UniqueSymbols(state.positions))
    /\ [][IsUpsert(last', "position_update") =>
            LET payload == last'.data.payload
                before == state.positions
                after == state'.positions
            IN  IF HasSymbol(before, payload.symbol)
                THEN /\ Len(after) = Len(before)
                     /\ \A i \in 1..Len(before) :
                            after[i] = IF before[i].symbol = payload.symbol
                                       THEN payload ELSE before[i]
                ELSE after = Append(before, payload)]_vars

\* A position upsert has replaced an entry that is not the last one by a
\* different payload
C7_Witness ==
    /\ IsUpsert(last, "position_update")
    /\ \E i \in 1..Len(last.before) :
          /\ i < Len(last.before)
          /\ last.before[i].symbol = last.data.payload.symbol
          /\ last.before[i] # last.data.payload
          /\ state.positions[i] = last.data.payload
          /\ Len(state.positions) = Len(last.before)


(* C2 as stated: in every reachable state, whatever interleaving of        *)
(* snapshots and updates produced it, orders and trades are in descending  *)
(* order of timestamp.                                                     *)
C2_AlwaysSorted == SortedDesc(state.orders) /\ SortedDesc(state.trades)

\* The step ends a request of fn with a response, or ends loadInitialData
InstallsSnapshot(l, fn) ==
    /\ l.op = "settle"
    /\ \/ l.fetch.fn = fn /\ l.ok /\ l.kind \in {"refresh", "refreshAll"}
       \/ l.kind = "loadInitial" /\ l.done

LeftUnsortedOnlyBySnapshot(field, fn) ==
    ~SortedDesc(state'[field]) =>
        \/ state'[field] = state[field]
        \/ /\ InstallsSnapshot(last', fn)
           /\ state'[field] \in LiveData(FetchOf(fn, NoArg))

(* C2 amended: a step leaves orders (trades) out of descending order only  *)
(* if it does not write the collection or if it is a ReplaceSlice of a     *)
(* remote response, which is installed in the order received; every       *)
(* update and every fallback snapshot leaves the collection in descending  *)
(* order.                                                                  *)
C2_SortedUnlessLiveSnapshot ==
    [][/\ LeftUnsortedOnlyBySnapshot("orders", "getOrderHistory")
       /\ LeftUnsortedOnlyBySnapshot("trades", "getTradeHistory")]_vars

\* A trade update has put the trades of an unsorted snapshot in order while
\* the orders of an unsorted snapshot are still held as received
C2_Witness ==
    /\ IsUpsert(last, "trade_update")
    /\ ~last.sortedBefore
    /\ SortedDesc(state.trades)
    /\ ~SortedDesc(state.orders)

(* C3: an order update applied to an orders slice that a ReplaceSlice      *)
(* installed in any order leaves the whole collection in descending order  *)
(* of timestamp.                                                           *)
C3_UpsertSortsWhole ==
    [][IsUpsert(last', "order_update") => SortedDesc(state'.orders)]_vars

\* The snapshot [A(1), B(3)] was held as received and the update C(2) has
\* left [B, C, A]
C3_Witness ==
    /\ IsUpsert(last, "order_update")
    /\ ~last.sortedBefore
    /\ last.data.payload.id = "C"
    /\ [i \in 1..Len(state.orders) |-> state.orders[i].id] = <<"B", "C", "A">>


Min(a, b) == IF a < b THEN a ELSE b

(* C4: each AddNotification applied to a list of at most 50 entries puts   *)
(* the new entry first, keeps the previous entries behind it in their      *)
(* order and leaves min(50, previous length + 1) entries, so that n        *)
(* additions leave min(50, previous length + n): the list is always the    *)
(* most recently added entries, newest first.                              *)
C4_AddNotificationCap ==
    /\ [](/\ Len(state.notifications) <= NotificationCap
          /\ \A i \in 1..Len(state.notifications) :
                state.notifications[i] = PushedNotification(pushed - i + 1))
    /\ [][IsUpsert(last', "notification") =>
            LET before == state.notifications
                after == state'.notifications
            IN  /\ Len(before) <= NotificationCap
                /\ Len(after) = Min(NotificationCap, Len(before) + 1)
                /\ after[1] = last'.data.payload
                /\ \A i \in 2..Len(after) : after[i] = before[i - 1]]_vars

\* The 51st addition in a row has dropped the oldest entry
C4_Witness ==
    /\ IsUpsert(last, "notification")
    /\ pushed = NotificationCap + 1
    /\ Len(state.notifications) = NotificationCap
    /\ state.notifications[NotificationCap] = PushedNotification(2)
    /\ state.notifications[1] = PushedNotification(NotificationCap + 1)

(* C5 as stated: in every reachable state, after any sequence of           *)
(* loadInitial, refreshAll, pushed notifications, markNotificationRead and *)
(* clearNotifications, the notification list holds at most 50 entries.     *)
C5_AtMostFifty == Len(state.notifications) <= NotificationCap

HasId(list, id) == \E i \in 1..Len(list) : list[i].id = id

(* C6 as stated: markNotificationRead with an id that no notification      *)
(* carries leaves every field of the state, lastUpdated included, as it    *)
(* was.                                                                    *)
C6_MarkAbsentIsNoOp ==
    [][(last'.op = "markNotificationRead" /\ ~HasId(state.notifications, last'.id))
            => state' = state]_vars

\* The value a failing fetch of one of the eight resources without a cache
\* falls back to
StatelessFallback(fetch) ==
    CASE fetch.fn = "getAccountBalance" -> mockBalances
      [] fetch.fn = "getPositions" -> mockPositions
      [] fetch.fn = "getOrderHistory" -> getMockOrders(fetch.arg)
      [] fetch.fn = "getTradeHistory" -> getMockTrades(fetch.arg)
      [] fetch.fn = "getPerformanceMetrics" -> getMockPerformance(fetch.arg.range)
      [] fetch.fn = "getAssetHistory" -> getMockAssetHistory(fetch.arg.range)
      [] fetch.fn = "getTradeStatistics" -> mockTradeStatistics
      [] fetch.fn = "getNotifications" -> mockNotifications

StatelessEndpoints ==
    {"getAccountBalance", "getPositions", "getOrderHistory", "getTradeHistory",
     "getPerformanceMetrics", "getAssetHistory", "getTradeStatistics",
     "getNotifications"}

FailedFetch(l) == l.op = "settle" /\ ~l.ok

\* C8: with every remote call failing, each fetch of loadInitialData returns
\* the fallback of its resource (the mock value, for strategies and risk the
\* cache as it is when the fetch fails), and the step that ends
\* loadInitialData leaves loading = false, error = null and the ten slices
\* equal to those values.
C8_LoadInitialFallsBack ==
    [][(last'.op = "settle" /\ last'.kind = "loadInitial") =>
        \A i \in 1..Len(calls) : calls[i].kind = "loadInitial" =>
            LET fn == last'.fetch.fn
                data == calls[i].data
            IN  /\ ~last'.ok /\ last'.status = "fulfilled"
                /\ fn \in StatelessEndpoints => last'.value = StatelessFallback(last'.fetch)
                /\ fn = "getStrategies" => last'.value = strategyCache
                /\ fn = "getRiskMetrics" => last'.value = riskCache
                /\ last'.done =>
                    /\ fn = "getNotifications"
                    /\ state'.loading = FALSE
                    /\ state'.error = Null
                    /\ state'.balance = mockBalances
                    /\ state'.positions = mockPositions
                    /\ state'.orders = baseOrders
                    /\ state'.trades = baseTrades
                    /\ state'.performance = performanceByRange["ALL"]
                    /\ state'.assetHistory = getMockAssetHistory("1M")
                    /\ state'.tradeStats = mockTradeStatistics
                    /\ state'.strategies = data.strategies
                    /\ state'.risk = data.risk
                    /\ state'.notifications = mockNotifications]_vars

C8_Witness ==
    /\ FailedFetch(last) /\ last.kind = "loadInitial" /\ last.done
    /\ state.loading = FALSE /\ state.error = Null
    /\ state.notifications = mockNotifications
    /\ Len(state.strategies) = Len(mockStrategies)
    /\ state.risk # Null

\* C9: every fetch of the layer settles fulfilled; when its remote request
\* fails it returns the fallback of its resource, and no error reaches the
\* store.
C9_FetchNeverRejects ==
    /\ [](state.error = Null)
    /\ [][last'.op = "settle" =>
            LET fetch == last'.fetch
                value == last'.value
            IN  /\ last'.status = "fulfilled"
                /\ ~last'.failed
                /\ ~last'.ok =>
                    /\ fetch.fn \in StatelessEndpoints => value = StatelessFallback(fetch)
                    /\ fetch.fn = "getStrategies" =>
                            value = strategyCache /\ strategyCache' = strategyCache
                    /\ fetch.fn = "getRiskMetrics" => value = riskCache
                    /\ fetch.fn = "acknowledgeNotification" => value = Undefined
                    /\ fetch.fn = "updateStrategyStatus" =>
                        /\ value = strategyCache'
                        /\ Len(value) = Len(strategyCache)
                        /\ \A k \in 1..Len(value) :
                            IF strategyCache[k].id = fetch.arg.strategyId
                            THEN value[k] = Strategy(fetch.arg.strategyId,
                                                     fetch.arg.status, toISOString(now))
                            ELSE value[k] = strategyCache[k]]_vars

C9_Witness ==
    /\ FailedFetch(last) /\ last.status = "fulfilled"
    /\ last.kind = "refreshAll" /\ last.fetch.fn = "getStrategies"
    /\ state.strategies = strategyCache
    /\ strategyCache # mockStrategies
    /\ state.error = Null

Given(filters, field) ==
    /\ filters # Undefined
    /\ field \in DOMAIN filters
    /\ filters[field] \notin {"", "ALL"}
GivenBound(filters, field) ==
    /\ filters # Undefined
    /\ field \in DOMAIN filters
    /\ filters[field] \notin {EmptyString, InvalidDate}
Satisfies(record, filters, isOrder) ==
    /\ Given(filters, "symbol") => record.symbol = filters.symbol
    /\ Given(filters, "side") => record.side = filters.side
    /\ (isOrder /\ Given(filters, "status")) => record.status = filters.status
    /\ GivenBound(filters, "start") => getTime(filters.start) <= getTime(record.timestamp)
    /\ GivenBound(filters, "end") => getTime(record.timestamp) <= getTime(filters.end)

\* value holds exactly the entries of base at the positions kept, in order
IsSelection(value, base, kept) ==
    /\ Len(value) = Cardinality(kept)
    /\ \A i \in kept : value[Cardinality({j \in kept : j <= i})] = base[i]

\* C11: the fallback orders (trades) returned for a filter are exactly the
\* base records that satisfy it, in base order: symbol, side and for orders
\* status equal to the filter's when given and not 'ALL', timestamp within
\* the inclusive start and end bounds that are given.
C11_FallbackFilterContract ==
    [][(FailedFetch(last') /\ last'.fetch.fn \in {"getOrderHistory", "getTradeHistory"}) =>
        LET isOrder == last'.fetch.fn = "getOrderHistory"
            base == IF isOrder THEN baseOrders ELSE baseTrades
            filters == last'.fetch.arg
        IN  /\ IsSelection(last'.value, base,
                           {i \in 1..Len(base) : Satisfies(base[i], filters, isOrder)})
            /\ IF isOrder THEN state'.orders = last'.value
                          ELSE state'.trades = last'.value]_vars

C11_Witness ==
    /\ FailedFetch(last) /\ last.fetch.fn = "getTradeHistory"
    /\ last.fetch.arg # Undefined
    /\ DOMAIN last.fetch.arg = {"start", "end"}
    /\ last.fetch.arg.start = daysAgo(3)
    /\ last.fetch.arg.end = [local |-> ModuleLoadTime - 4, off |-> 1]
    /\ Len(last.value) = 4
    /\ last.value[1].id = "TRD-6002" /\ last.value[4].id = "TRD-6005"
    /\ state.trades = last.value

----------------------------------------------------------------------------
(* Properties of the transport *)

UnexpectedClose(l) == l.op = "close" /\ ~l.expected

\* C12: after an unexpected close exactly one reconnect is pending, at no
\* time is more than one timer pending, and after disconnect() no scheduled
\* reconnect is left to fire.
C12_OneReconnectUnlessDisconnected ==
    /\ [](Cardinality(timers) <= 1)
    /\ [][UnexpectedClose(last') => Cardinality(timers') = 1]_vars
    /\ [][last'.op = "disconnect" => timers' = {}]_vars

SchedulesReconnect == \E t \in timers' : t \notin timers

\* C13: the close that disconnect() causes schedules no reconnect,
\* disconnect() leaves no reconnect pending, and right after either only a
\* call of connect() creates a connection.
C13_DisconnectSuppressesReconnect ==
    /\ [][(last'.op = "close" /\ last'.expected) => ~SchedulesReconnect]_vars
    /\ [][last'.op = "disconnect" => timers' = {}]_vars
    /\ [][((last.op = "disconnect" \/ (last.op = "close" /\ last.expected))
            /\ Len(sockets') > Len(sockets)) => last'.op = "connect"]_vars

\* C14: every close of a connection that disconnect() did not trigger
\* schedules a reconnect, also on a connection opened by connect() after an
\* earlier disconnect().
C14_UnexpectedCloseReconnects ==
    [][UnexpectedClose(last') => SchedulesReconnect]_vars

\* C16: connect() on an open connection creates no socket and changes
\* nothing of the transport.
C16_ConnectIdempotentWhenOpen ==
    [][(last'.op = "connect" /\ isOpen(Client)) =>
        UNCHANGED <<sockets, ws, timers, timerCount, reconnectTimer, manualClose,
                    sent>>]_vars

\* C18: when new WebSocket throws inside connect(), connect() returns, no
\* socket is created and one reconnect is pending afterwards.
C18_ConnectExceptionSchedulesReconnect ==
    [][(last'.op \in {"connect", "timer"} /\ last'.threw) =>
        /\ sockets' = sockets
        /\ SchedulesReconnect
        /\ Cardinality(timers') = 1]_vars

\* C19: a connection error (the error event, which the close event follows)
\* on a connection that disconnect() did not close schedules a reconnect.
C19_ErrorSchedulesReconnect ==
    [][(UnexpectedClose(last') /\ last'.error) =>
        (SchedulesReconnect /\ timerCount' = timerCount + 1)]_vars

Malformed(text) == "json" \notin DOMAIN text
FrameEvent(l) == l.op \in {"frame", "message"} /\ "text" \in DOMAIN l

\* C17: a frame that is no JSON reaches no listener and changes neither the
\* store nor the transport: the socket stays open, nothing is scheduled;
\* a frame that is JSON is emitted whatever came before it.
C17_MalformedFrameDropped ==
    /\ [][FrameEvent(last') =>
            IF Malformed(last'.text)
            THEN /\ last'.op = "frame"
                 /\ UNCHANGED <<storeVars, wsVars>>
                 /\ sockets'[last'.socket] = "OPEN"
            ELSE /\ last'.op = "message"
                 /\ last'.data = last'.text.json]_vars
    /\ [](last.op = "frame" => sockets[last.socket] = "OPEN" /\ ENABLED SocketFrame)

C17_Witness ==
    /\ last.op = "message" /\ "after" \in DOMAIN last /\ last.after = "frame"
    /\ "type" \in DOMAIN last.data /\ last.data.type = "balance_update"
    /\ state.balance = LiveBalances
    /\ sockets[last.socket] = "OPEN"
    /\ timers = {}

\* C20: send on a transport whose connection is not open transmits nothing,
\* and no other step transmits anything later; on an open connection it
\* transmits the serialized payload.
C20_SendDropsWhenNotOpen ==
    /\ [][last'.op = "send" =>
            sent' = IF isOpen(Client)
                    THEN Append(sent, [json |-> last'.payload])
                    ELSE sent]_vars
    /\ [][last'.op # "send" => sent' = sent]_vars

C20_Witness ==
    /\ last.op = "open" /\ last.after = "send"
    /\ last.socket = ws
    /\ sockets[ws] = "OPEN"
    /\ sent = <<>>

\* C15: when disconnect() is never called, once connect() has been called
\* the transport reaches an open connection again and again, whatever
\* attempts failed and connections closed before.
C15_EventuallyOpenAgain ==
    (definition # 0 /\ (sockets # <<>> \/ failures > 0)) ~> isOpen(Client)

\* One call of every callback registered for event, in registration order
AllListeners(event) ==
    [i \in 1..Len(listeners[event]) |-> Invocation(event, listeners[event][i])]

\* The same, ending with the first callback that throws
ListenersUntilThrow(event) ==
    LET callbacks == listeners[event]
        reached == {i \in 1..Len(callbacks) :
                        \A j \in 1..(i - 1) : ~callbacks[j].throws}
    IN  SubSeq(AllListeners(event), 1, Cardinality(reached))

\* l records the emission of a parsed frame as a 'message' event
EmitsMessage(l) == l.op = "message" /\ "invoked" \in DOMAIN l

(* C21 as stated: when the transport emits open, message, error or close,  *)
(* every listener registered for that event is called exactly once, in     *)
(* registration order, and no listener of another event is called.         *)
C21_EveryListenerInvoked ==
    [][/\ last'.op = "open" => last'.invoked = AllListeners("open")
       /\ EmitsMessage(last') => last'.invoked = AllListeners("message")
       /\ last'.op = "close" =>
            last'.invoked = (IF last'.error THEN AllListeners("error") ELSE <<>>)
                                \o AllListeners("close")]_vars

(* C21 amended: when the transport emits an event, the listeners of that   *)
(* event are called in registration order, each at most once, up to and    *)
(* including the first one that throws (all of them when none throws), and *)
(* no listener of another event is called.                                 *)
C21_ListenersInvokedInOrder ==
    [][/\ last'.op = "open" => last'.invoked = ListenersUntilThrow("open")
       /\ EmitsMessage(last') => last'.invoked = ListenersUntilThrow("message")
       /\ last'.op = "close" =>
            last'.invoked =
                (IF last'.error THEN ListenersUntilThrow("error") ELSE <<>>)
                    \o ListenersUntilThrow("close")]_vars

\* A close event was emitted to two 'close' listeners of which the first
\* throws, and only the first was called
C21_Witness ==
    /\ last.op = "close"
    /\ Len(listeners["close"]) = 2
    /\ listeners["close"][1].throws
    /\ last.invoked = << Invocation("close", listeners["close"][1]) >>

\* The store action the claim assigns to each message type
RoutedTypes ==
    {"balance_update", "position_update", "order_update", "trade_update",
     "risk_update", "notification"}
StoreActionOf(type) ==
    CASE type = "balance_update" -> "UPSERT_BALANCES"
      [] type = "position_update" -> "UPSERT_POSITION"
      [] type = "order_update" -> "UPSERT_ORDER"
      [] type = "trade_update" -> "UPSERT_TRADE"
      [] type = "risk_update" -> "SET_RISK"
      [] type = "notification" -> "ADD_NOTIFICATION"

IsRouted(data) == "type" \in DOMAIN data /\ data.type \in RoutedTypes

(* C22: a realtime message is routed by its type to exactly one store      *)
(* action (balance_update replaces the balances slice, position_update ->  *)
(* UpsertPosition, order_update -> UpsertOrder, trade_update ->            *)
(* UpsertTrade, risk_update -> SetRisk, notification -> AddNotification);  *)
(* a message of another type and a parsed frame that is no object with a   *)
(* type field leave the store unchanged.                                   *)
C22_RoutedByType ==
    [][last'.op = "message" =>
        LET data == last'.data IN
        IF IsRouted(data)
        THEN /\ state' = accountReducer(state,
                                        Action(StoreActionOf(data.type), data.payload),
                                        now)
             /\ data.type = "balance_update" => state'.balance = data.payload
        ELSE state' = state]_vars

\* A frame of an unknown type has been handled after messages of all six
\* types had filled their slices
C22_Witness ==
    /\ last.op = "message"
    /\ last.data = [type |-> "heartbeat"]
    /\ state.balance # <<>>
    /\ state.positions # <<>>
    /\ state.orders # <<>>
    /\ state.trades # <<>>
    /\ state.risk # Null
    /\ state.notifications # <<>>

\* The slices a snapshot fetch replaces
SnapshotFetches ==
    {"getAccountBalance", "getPositions", "getOrderHistory", "getTradeHistory",
     "getPerformanceMetrics", "getAssetHistory", "getTradeStatistics",
     "getStrategies", "getRiskMetrics", "getNotifications"}

(* C23: a snapshot of a resource applied after realtime updates of that    *)
(* resource wins.  When a refresh (alone or within refreshAll) receives    *)
(* its snapshot, the slice afterwards equals the snapshot; when            *)
(* loadInitialData receives its last snapshot, every slice afterwards      *)
(* equals the snapshot collected for it - whatever updates arrived while   *)
(* the request was in flight and whichever of the two holds newer data.    *)
C23_SnapshotWins ==
    [][last'.op = "settle" /\ last'.status = "fulfilled"
            /\ last'.fetch.fn \in SnapshotFetches =>
        /\ last'.kind \in {"refresh", "refreshAll"} =>
                state'[SliceOf(last'.fetch.fn)] = last'.value
        /\ last'.kind = "loadInitial" /\ last'.done /\ ~last'.failed =>
                /\ state'[SliceOf(last'.fetch.fn)] = last'.value
                /\ \A i \in 1..Len(calls) :
                        calls[i].kind = "loadInitial" =>
                            \A slice \in DOMAIN calls[i].data :
                                slice # SliceOf(last'.fetch.fn) =>
                                    state'[slice] = calls[i].data[slice]]_vars

\* loadInitialData, requested before anything else happened, has just applied
\* its snapshots; its order A is older than the two updates of order A that
\* arrived while it was in flight
C23_Witness ==
    /\ last.op = "settle"
    /\ last.kind = "loadInitial"
    /\ last.done
    /\ pushed = MaxSyncPushed
    /\ state.orders = LiveOrderSnapshot
    /\ \E i \in 1..Len(state.orders) :
            /\ state.orders[i].id = "A"
            /\ \A m \in StaleOrderMessages :
                    getTime(state.orders[i].timestamp) < getTime(m.payload.timestamp)

\* l records the step in which a batch call of the given kind ended
BatchEnds(l, kind) == l.op = "settle" /\ l.kind = kind /\ l.done

InFlight(kind) == \E i \in 1..Len(calls) : calls[i].kind = kind

(* C24: the loading flag is not reference-counted.  The step in which a    *)
(* refreshAll call finishes leaves loading false, also when another        *)
(* refreshAll call is still in flight.                                     *)
C24_LoadingNotCounted ==
    [][BatchEnds(last', "refreshAll") => ~state'.loading]_vars

\* The first of two overlapping refreshAll calls has just finished: loading
\* is false while the second is in flight
C24_Witness ==
    /\ BatchEnds(last, "refreshAll")
    /\ InFlight("refreshAll")
    /\ ~state.loading

DataSlices ==
    {"balance", "positions", "orders", "trades", "performance", "assetHistory",
     "tradeStats", "strategies", "risk", "notifications"}

\* The store after the catch and finally of the batch call ran, were the
\* request at the head of call to reject now
AfterRejection(call) ==
    LET r == [status |-> "rejected", value |-> Undefined]
    IN  dispatchAll(state, continuation(call, r, now), now)

(* C25: every loadInitialData and refreshAll call that is started ends,    *)
(* and the step that ends it leaves loading false; when it ends without a  *)
(* rejection error is null.  Were a request of a batch call in flight to   *)
(* reject, the store would hold a message in error, loading false and      *)
(* every data slice as it was, including the slices the call has replaced. *)
C25_BatchesEndNotLoading ==
    /\ \A kind \in {"loadInitial", "refreshAll"} :
            InFlight(kind) ~> (BatchEnds(last, kind) /\ ~state.loading)
    /\ [][\A kind \in {"loadInitial", "refreshAll"} :
            BatchEnds(last', kind) =>
                /\ ~state'.loading
                /\ ~last'.failed /\ last'.status = "fulfilled" => state'.error = Null]_vars
    /\ [](\A i \in 1..Len(calls) :
            calls[i].kind \in {"loadInitial", "refreshAll"} /\ ~calls[i].failed =>
                LET after == AfterRejection(calls[i]) IN
                /\ ~after.loading
                /\ after.error # Null
                /\ \A slice \in DataSlices : after[slice] = state[slice])

\* A refreshAll call has just ended: loading is false and error is null, and
\* the positions are those of the snapshot it received
C25_Witness ==
    /\ BatchEnds(last, "refreshAll")
    /\ ~state.loading
    /\ state.error = Null
    /\ Len(state.positions) = 1
    /\ calls = <<>>

\* The status of the strategy with the given id in the store, "" if absent
StatusOf(strategies, strategyId) ==
    IF \E i \in 1..Len(strategies) : strategies[i].id = strategyId
    THEN strategies[CHOOSE i \in 1..Len(strategies) : strategies[i].id = strategyId].status
    ELSE ""

\* The request a toggle has put in flight
ToggleRequest(strategyId, status) ==
    FetchOf("updateStrategyStatus", [strategyId |-> strategyId, status |-> status])

(* C26: toggleStrategyStatus(id) puts one request in flight that asks for  *)
(* stopped when the strategy with that id is running in the store and for  *)
(* running when it is stopped, and leaves the store as it is; the          *)
(* strategies slice changes only when a request ends, and when the         *)
(* request of a toggle ends the slice is the list that request returned.   *)
C26_ToggleRequestsOpposite ==
    [][/\ last'.op = "toggleStrategyStatus" =>
            LET current == StatusOf(state.strategies, last'.strategyId) IN
            /\ current = "running" => last'.status = "stopped"
            /\ current = "stopped" => last'.status = "running"
            /\ calls' = Append(calls,
                               NewCall("toggle",
                                       << ToggleRequest(last'.strategyId,
                                                        last'.status) >>))
            /\ state' = state
       /\ state'.strategies # state.strategies => last'.op = "settle"
       /\ last'.op = "settle" /\ last'.kind = "toggle" =>
            /\ state'.strategies = last'.value
            /\ state' = [state EXCEPT !.strategies = last'.value,
                                      !.lastUpdated = toISOString(now)]]_vars

\* The answer to a toggle of the running strategy strat-001 has just been
\* applied: the slice is the list of the server, with strat-001 stopped
C26_Witness ==
    /\ last.op = "settle"
    /\ last.kind = "toggle"
    /\ last.ok
    /\ last.fetch = ToggleRequest("strat-001", "stopped")
    /\ state.strategies = LiveStrategies("strat-001", "stopped")

\* Actions of every type of AccountAction, with payloads of the declared
\* types, grouped by the kind of payload; the ids of MARK_NOTIFICATION are the
\* ids in the list and one that is absent
RecordActions ==
    {Action("SET_STATE", payload) :
        payload \in {[orders |-> LiveOrderSnapshot, lastUpdated |-> toISOString(now)],
                     [lastUpdated |-> toISOString(now)],
                     [performance |-> LivePerformance("WEEK"),
                      performanceRange |-> "WEEK"]}}
    \cup {Action("SET_ERROR", e) : e \in {Null, Message("request failed")}}
    \cup {Action("UPSERT_POSITION", p) : p \in LivePositions}
    \cup {Action("UPSERT_ORDER", o) : o \in LiveOrders}
    \cup {Action("UPSERT_TRADE", t) : t \in LiveTrades}
    \cup {Action("SET_RISK", LiveRisk("push"))}
    \cup {Action("ADD_NOTIFICATION", PushedNotification(1))}
    \cup {Action("MARK_NOTIFICATION", [id |-> id, read |-> read]) :
            id \in ids(state.notifications) \cup {"absent"}, read \in BOOLEAN}
ListActions ==
    {Action("UPSERT_BALANCES", LiveBalances), Action("UPSERT_BALANCES", <<>>),
     Action("SET_NOTIFICATIONS", <<>>), Action("SET_NOTIFICATIONS", LiveNotifications),
     Action("SET_STRATEGIES", mockStrategies)}
FlagActions == {Action("SET_LOADING", b) : b \in BOOLEAN}

\* Actions whose type is none of AccountAction
UnknownActions ==
    {Action("RESET", Null), Action("set_loading", Null),
     Action("UPSERT_POSITIONS", Null)}

\* value is an AccountState: the reducer returned and did not throw
IsState(value) ==
    /\ DOMAIN value = DOMAIN initialState
    /\ value.loading \in BOOLEAN

----------------------------------------------------------------------------
\* The fields of the store that the refresh of one resource writes
Touched(fn) ==
    {SliceOf(fn), "lastUpdated"}
    \cup (IF fn = "getPerformanceMetrics" THEN {"performanceRange"} ELSE {})
    \cup (IF fn = "getAssetHistory" THEN {"assetHistoryRange"} ELSE {})

\* Every way the request of fetch can end
Responses(fetch) ==
    {[ok |-> FALSE]} \cup {[ok |-> TRUE, data |-> d] : d \in LiveData(fetch)}

\* The store and the caches of the layer, and what they become when the
\* request of the refresh of fetch ends with response
World == [state |-> state, strategyCache |-> strategyCache, riskCache |-> riskCache]
RefreshOutcome(w, fetch, response) ==
    LET r == Fetch(fetch, response, w.strategyCache, w.riskCache, now)
    IN  [state |-> dispatchAll(w.state,
                               continuation(NewCall("refresh", <<fetch>>), r, now),
                               now),
         strategyCache |-> r.strategyCache,
         riskCache |-> IF fetch.fn = "getRiskMetrics" /\ r.status = "fulfilled"
                       THEN setRiskCache(r.value) ELSE r.riskCache]

RefreshesInFlight == {i \in 1..Len(calls) : calls[i].kind = "refresh"}

\* C28: the completion of a per-resource refresh changes only the slice of
\* its resource, lastUpdated and, for performance and asset history, the
\* matching range selector: every other data slice, loading and error keep
\* their values; and whenever refreshes of two different resources are in
\* flight, the store and the caches end the same whichever request
\* completes first, however each of the two requests ends
C28_RefreshOwnSlice ==
    /\ [][last'.op = "settle" /\ last'.kind = "refresh" =>
            /\ \A field \in DOMAIN state \ Touched(last'.fetch.fn) :
                    state'[field] = state[field]
            /\ \E response \in Responses(last'.fetch) :
                    state' = RefreshOutcome(World, last'.fetch, response).state]_vars
    /\ [](\A i, j \in RefreshesInFlight :
            LET a == Head(calls[i].queue)
                b == Head(calls[j].queue)
            IN  a.fn # b.fn =>
                    \A ra \in Responses(a), rb \in Responses(b) :
                        RefreshOutcome(RefreshOutcome(World, a, ra), b, rb)
                            = RefreshOutcome(RefreshOutcome(World, b, rb), a, ra))

\* The refresh of the performance metrics for the week has completed while
\* a refresh of the risk metrics is in flight, after a refresh of the orders
C28_Witness ==
    /\ last.op = "settle"
    /\ last.kind = "refresh"
    /\ last.fetch = FetchOf("getPerformanceMetrics", [range |-> "WEEK"])
    /\ state.performanceRange = "WEEK"
    /\ state.performance = LivePerformance("WEEK")
    /\ state.orders = LiveOrderSnapshot
    /\ state.risk = Null
    /\ \E i \in RefreshesInFlight : Head(calls[i].queue).fn = "getRiskMetrics"

----------------------------------------------------------------------------
\* The messages SET_ERROR can carry
ErrorPayloads == {Null, Message("request failed")}

\* after differs from before in the field named only, which holds value
OnlyField(before, after, field, value) ==
    /\ after[field] = value
    /\ \A other \in DOMAIN before \ {field} : after[other] = before[other]

\* C29: in every reachable state SET_LOADING changes the loading field and
\* nothing else, and SET_ERROR changes the error field and nothing else: the
\* data slices, the range selectors, lastUpdated and the other flag keep
\* their values; the SET_LOADING that loadInitialData and refreshAll dispatch
\* before their requests leaves the store as it was but for loading
C29_FlagsOrthogonal ==
    /\ [](\A b \in BOOLEAN :
            OnlyField(state, accountReducer(state, Action("SET_LOADING", b), now),
                      "loading", b))
    /\ [](\A e \in ErrorPayloads :
            OnlyField(state, accountReducer(state, Action("SET_ERROR", e), now),
                      "error", e))
    /\ [][last'.op \in {"loadInitialData", "refreshAll"} =>
            OnlyField(state, state', "loading", TRUE)]_vars

\* refreshAll() has set the loading flag of a store that holds the orders of
\* the server, while an earlier batch is still in flight
C29_Witness ==
    /\ last.op = "refreshAll"
    /\ state.loading
    /\ state.error = Null
    /\ state.orders = LiveOrderSnapshot
    /\ state.lastUpdated # Undefined
    /\ Len(calls) = 2

----------------------------------------------------------------------------
\* after is before with read set on the entries whose id is id, every entry
\* in its place and every other field as it was
MarkedInPlace(before, after, id) ==
    /\ Len(after) = Len(before)
    /\ \A i \in 1..Len(before) :
        /\ DOMAIN after[i] = DOMAIN before[i]
        /\ \A field \in DOMAIN before[i] \ {"read"} : after[i][field] = before[i][field]
        /\ after[i].read = (IF before[i].id = id THEN TRUE ELSE before[i].read)

\* C30: markNotificationRead(id) with an id present in the list sets read
\* on the entries with that id and leaves the list otherwise as it was: the
\* length, the order of the entries and every field of every other
\* notification are unchanged; the same holds of MARK_NOTIFICATION for every
\* id present in the list of every reachable state
C30_MarkInPlace ==
    /\ [][last'.op = "markNotificationRead" /\ last'.id \in ids(state.notifications) =>
            MarkedInPlace(state.notifications, state'.notifications, last'.id)]_vars
    /\ [](\A id \in ids(state.notifications) :
            MarkedInPlace(state.notifications,
                          accountReducer(state,
                                         Action("MARK_NOTIFICATION",
                                                [id |-> id, read |-> TRUE]),
                                         now).notifications,
                          id))

\* The second entry of the list, the first notification pushed, has been
\* marked read; the entry before it and the entries after it are unread
C30_Witness ==
    /\ last.op = "markNotificationRead"
    /\ last.id = "1"
    /\ Len(state.notifications) > 2
    /\ state.notifications[1].id = "2"
    /\ ~state.notifications[1].read
    /\ state.notifications[2].id = "1"
    /\ state.notifications[2].read
    /\ ~state.notifications[3].read

----------------------------------------------------------------------------
\* The range selector a refresh writes with its slice, if any
SelectorOf(fn) ==
    CASE fn = "getPerformanceMetrics" -> {"performanceRange"}
      [] fn = "getAssetHistory" -> {"assetHistoryRange"}
      [] OTHER -> {}

\* C31: there is no cancellation.  A refresh issued while another refresh of
\* the same resource is in flight leaves that request in flight; every
\* refresh that completes replaces the slice by what its own fetch returned
\* (and the range selector by its own range), whatever was issued or has
\* completed before it; so of two refreshes in flight together the one that
\* completes last decides the slice: every request still in flight will
\* replace the slice by its own result, however it ends
C31_LastCompletionWins ==
    /\ [][last'.op = "refresh" =>
            calls' = Append(calls, NewCall("refresh", <<last'.fetch>>))]_vars
    /\ [][last'.op = "settle" /\ last'.kind = "refresh" =>
            /\ \E i \in 1..Len(calls) :
                    /\ calls' = RemoveAt(calls, i)
                    /\ Head(calls[i].queue) = last'.fetch
            /\ last'.status = "fulfilled"
            /\ state'[SliceOf(last'.fetch.fn)] = last'.value
            /\ \A selector \in SelectorOf(last'.fetch.fn) :
                    state'[selector] = last'.fetch.arg.range]_vars
    /\ [](\A i \in RefreshesInFlight :
            LET fetch == Head(calls[i].queue) IN
            \A response \in Responses(fetch) :
                RefreshOutcome(World, fetch, response).state[SliceOf(fetch.fn)]
                    = Fetch(fetch, response, strategyCache, riskCache, now).value)

\* Of two refreshes of the orders in flight together, the one issued second
\* has failed first and its filtered fallback is in the store, while the
\* one issued first is still in flight and will bring a different list
C31_Witness ==
    /\ last.op = "settle"
    /\ last.fetch = FetchOf("getOrderHistory", [side |-> "BUY"])
    /\ ~last.ok
    /\ state.orders = getMockOrders([side |-> "BUY"])
    /\ Len(calls) = 1
    /\ Head(calls[1].queue) = FetchOf("getOrderHistory", [symbol |-> "BTC/USDT"])
    /\ getMockOrders([symbol |-> "BTC/USDT"]) # state.orders
    /\ LiveOrderSnapshot # state.orders

----------------------------------------------------------------------------
\* The instant a is not before the instant b; a store never updated is
\* before every instant
NotEarlier(a, b) == b = Undefined \/ (a # Undefined /\ getTime(a) >= getTime(b))

\* last tells of a step that has written a data slice: a refresh whose fetch
\* has returned, alone or in a refreshAll, an initial load that has
\* installed its result, a realtime message of a routed type
WroteData(l) ==
    \/ /\ l.op = "settle"
       /\ l.status = "fulfilled"
       /\ \/ l.kind \in {"refresh", "refreshAll"}
          \/ l.kind = "loadInitial" /\ l.done /\ ~l.failed
    \/ l.op = "message" /\ IsRouted(l.data)

StampedBy(messages) ==
    \A data \in messages :
        dispatchAll(state, handleRealtimeMessage(data), now).lastUpdated
            = toISOString(now)

\* C32: every step that writes a data slice, by a refresh, a refreshAll, an
\* initial load or a realtime message, and every step after which a data
\* slice differs, sets lastUpdated to the reading of the clock; in every
\* reachable state the refresh of each of the ten resources, however its
\* request ends, and a realtime message of each routed type would do so;
\* lastUpdated is never later than the clock and no step moves it back
C32_LastUpdatedBumped ==
    /\ [][WroteData(last') \/ (\E slice \in DataSlices : state'[slice] # state[slice])
            => state'.lastUpdated = toISOString(now')]_vars
    /\ [][NotEarlier(state'.lastUpdated, state.lastUpdated)]_vars
    /\ [](NotEarlier(toISOString(now), state.lastUpdated))
    /\ [](\A fetch \in RefreshFetches : \A response \in Responses(fetch) :
            RefreshOutcome(World, fetch, response).state.lastUpdated = toISOString(now))
    /\ [](/\ StampedBy(BalanceMessages)
          /\ StampedBy(RoutedPositionMessages)
          /\ StampedBy(SyncOrderMessages)
          /\ StampedBy(SyncTradeMessages)
          /\ StampedBy(RiskMessages)
          /\ StampedBy({[type |-> "notification", payload |-> PushedNotification(1)]}))

\* After the clock has advanced a trade update has arrived in a store that
\* an initial load had filled: lastUpdated is the later reading of the clock
C32_Witness ==
    /\ last.op = "message"
    /\ last.data.type = "trade_update"
    /\ now > ModuleLoadTime
    /\ state.lastUpdated = toISOString(now)
    /\ state.balance = mockBalances
    /\ state.notifications = mockNotifications
    /\ calls = <<>>

----------------------------------------------------------------------------
\* C33: failures of remote calls never reach the error field.  Every fetch
\* of loadInitialData, of a refresh and of refreshAll ends fulfilled, with
\* the response or with its fallback, and error is null in every reachable
\* state, with requests answered and failing and realtime messages arriving
C33_ErrorStaysNull ==
    /\ [](state.error = Null)
    /\ [][last'.op = "settle" => last'.status = "fulfilled" /\ ~last'.failed]_vars

\* A refreshAll has ended with its last request failing, after the initial
\* load: the store holds the fallback list and no error
C33_Witness ==
    /\ last.op = "settle"
    /\ last.kind = "refreshAll"
    /\ last.done
    /\ ~last.ok
    /\ calls = <<>>
    /\ state.notifications = mockNotifications
    /\ state.balance = mockBalances
    /\ state.orders = LiveOrderSnapshot
    /\ state.error = Null
    /\ ~state.loading

----------------------------------------------------------------------------
\* What a fetch can return, the request answered or failed
Fetched(fetch) ==
    {Fetch(fetch, response, strategyCache, riskCache, now).value :
        response \in Responses(fetch)}

\* C34: in every reachable state the performance slice is null or a value
\* getPerformanceMetrics returns for the range in performanceRange, and the
\* asset history is empty or a value getAssetHistory returns for the range
\* in assetHistoryRange, under every interleaving of the initial load,
\* refreshPerformance, refreshAssetHistory and refreshAll
C34_SliceMatchesRange ==
    /\ \/ state.performance = Null
       \/ state.performance
            \in Fetched(FetchOf("getPerformanceMetrics",
                                [range |-> state.performanceRange]))
    /\ \/ state.assetHistory = <<>>
       \/ state.assetHistory
            \in Fetched(FetchOf("getAssetHistory", [range |-> state.assetHistoryRange]))

\* The performance view has switched to the week; a refreshAll started
\* after that has failed to fetch the performance of the week and holds its
\* fallback, while a refreshAssetHistory for one day is in flight
C34_Witness ==
    /\ last.op = "settle"
    /\ last.kind = "refreshAll"
    /\ last.fetch = FetchOf("getPerformanceMetrics", [range |-> "WEEK"])
    /\ ~last.ok
    /\ state.performanceRange = "WEEK"
    /\ state.performance = getMockPerformance("WEEK")
    /\ getMockPerformance("WEEK") # getMockPerformance("ALL")
    /\ state.assetHistoryRange = "1M"
    /\ state.assetHistory # <<>>
    /\ \E i \in 1..Len(calls) :
            Head(calls[i].queue) = FetchOf("getAssetHistory", [range |-> "1D"])

----------------------------------------------------------------------------
\* The ids markNotificationRead has marked and whose acknowledgement is
\* still in flight
MarkedInFlight ==
    {Head(calls[i].queue).arg.notificationId :
        i \in {k \in 1..Len(calls) : calls[k].kind = "acknowledge"}}

\* The flags with which list holds the notification id
FlagsOf(list, id) == {list[i].read : i \in {k \in 1..Len(list) : list[k].id = id}}

\* C35: once markNotificationRead(id) has been applied to a notification of
\* the list, the notification is not held unread again while it stays in the
\* list; in particular no step taken while the acknowledgement of the mark
\* is in flight, of a refresh, a batch or a realtime message, turns a
\* notification that is held read into one that is held unread
C35_MarkedStaysRead ==
    [][\A id \in MarkedInFlight :
            FlagsOf(state.notifications, id) = {TRUE}
                => FALSE \notin FlagsOf(state'.notifications, id)]_vars

----------------------------------------------------------------------------
\* C36: after disconnect() has returned no message event is delivered to
\* the listeners, and so no realtime message reaches the store, whatever
\* the connections and the timeouts do afterwards
C36_SilentAfterDisconnect ==
    [](last.op = "disconnect" => [](last.op # "message"))

----------------------------------------------------------------------------
\* The connections that are connecting or open
Live == {i \in 1..Len(sockets) : sockets[i] \in {"CONNECTING", "OPEN"}}

\* C37: at any time at most one connection of the transport is connecting
\* or open, whatever connect(), disconnect(), the timeouts and the
\* connections do
C37_AtMostOneConnection == Cardinality(Live) <= 1

----------------------------------------------------------------------------
\* C38: toggleStrategyStatus(id) asks for stopped when the store holds the
\* strategy as running and for running otherwise, also when the strategy is
\* paused or absent; two toggles of one strategy made before the request of
\* the first has ended ask for the same status; and when the request of a
\* toggle ends, the strategy, if the list returned holds it, has the status
\* asked for, so the second of the pair leaves the status the first gave
C38_PairTogglesOnce ==
    /\ [][last'.op = "toggleStrategyStatus" =>
            last'.status = (IF StatusOf(state.strategies, last'.strategyId) = "running"
                            THEN "stopped" ELSE "running")]_vars
    /\ [](Len(calls) = 2 /\ calls[1].kind = "toggle" /\ calls[2].kind = "toggle"
            => calls[1].queue = calls[2].queue)
    /\ [][last'.op = "settle" /\ last'.kind = "toggle" =>
            StatusOf(state'.strategies, last'.fetch.arg.strategyId)
                \in {"", last'.fetch.arg.status}]_vars
    /\ [][/\ last'.op = "settle" /\ last'.kind = "toggle"
          /\ last.op = "settle" /\ last.kind = "toggle" /\ last.fetch = last'.fetch
          => StatusOf(state'.strategies, last'.fetch.arg.strategyId)
                = StatusOf(state.strategies, last'.fetch.arg.strategyId)]_vars

\* The paused strategy has been toggled twice before any answer: the answer
\* to the first request has made it running and the second request, still
\* in flight, asks for running too
C38_Witness ==
    /\ last.op = "settle"
    /\ last.kind = "toggle"
    /\ last.fetch = ToggleRequest("strat-002", "running")
    /\ StatusOf(state.strategies, "strat-002") = "running"
    /\ StatusOf(mockStrategies, "strat-002") = "paused"
    /\ Len(calls) = 1
    /\ Head(calls[1].queue) = ToggleRequest("strat-002", "running")

----------------------------------------------------------------------------
\* The flags with which risk holds the alert alertId
EnabledOf(risk, alertId) ==
    {risk.alerts[i].enabled :
        i \in {k \in 1..Len(risk.alerts) : risk.alerts[k].id = alertId}}

\* updateRiskAlert has changed, of the risk metrics, nothing but the flag of
\* the alerts alertId, and of the rest of the store nothing but lastUpdated
OnlyFlagChanged(alertId, enabled) ==
    /\ \A f \in DOMAIN state \ {"risk", "lastUpdated"} : state'[f] = state[f]
    /\ \A f \in DOMAIN state.risk \ {"alerts"} : state'.risk[f] = state.risk[f]
    /\ Len(state'.risk.alerts) = Len(state.risk.alerts)
    /\ \A i \in 1..Len(state.risk.alerts) :
            IF state.risk.alerts[i].id = alertId
            THEN state'.risk.alerts[i] = [state.risk.alerts[i] EXCEPT !.enabled = enabled]
            ELSE state'.risk.alerts[i] = state.risk.alerts[i]
    /\ EnabledOf(riskCache', alertId) = EnabledOf(state'.risk, alertId)

\* What updateRiskAlert does, and what a failing fetch of the risk metrics
\* returns and refreshRisk installs
AlertUpdated ==
    /\ [][last'.op = "updateRiskAlert" =>
            IF state.risk = Null
            THEN state' = state /\ riskCache' = riskCache
            ELSE OnlyFlagChanged(last'.alertId, last'.enabled)]_vars
    /\ [][FailedFetch(last') /\ last'.fetch.fn = "getRiskMetrics" =>
            /\ \A alertId \in SwitchedAlertIds :
                    EnabledOf(last'.value, alertId) = EnabledOf(riskCache, alertId)
            /\ last'.kind = "refresh" => state'.risk = last'.value]_vars

=============================================================================
